---- MODULE Spec2Model ----
(***************************************************************************)
(* The consensus engine of the chain crate: block data model and canonical *)
(* encoding, the base / ML validity pipeline, the proposer, the            *)
(* longest-chain fork choice, the two block stores and the engine's        *)
(* import / propose paths.                                                 *)
(***************************************************************************)
EXTENDS Integers, Sequences, FiniteSets, TLC

(***************************************************************************)
(* Bounds of the model.                                                    *)
(***************************************************************************)
\* Largest value of the height type: stands for u64::MAX.
MaxHeight == 1
\* Largest number of blocks the store holds before the model stops calling.
MaxBlocks == 2
\* cfg.max_block_txs of the modelled engine.
MaxBlockTxs == 2
\* cfg.max_block_size_bytes of the modelled engine.
MaxBlockSizeBytes == 320
\* MlConfig.max_artefacts_per_block of the modelled engine.
MaxArtefactsPerBlock == 2
\* The longest transaction list handed to a validator on its own.
MaxValidatedTxs == 3
\* The longest transaction list of a block that is hashed on its own.
MaxHashedTxs == 2
\* The number of transactions pushed to a pool.
MaxPushed == 3

\* Handlers of POST /models running at once.
MaxHandlers == 2

(***************************************************************************)
(* Primitives.                                                             *)
(***************************************************************************)
HASH_LEN == 32

\* Option<T>: None is the empty sequence, Some(x) the one-element sequence.
None == <<>>
Some(x) == <<x>>
IsSome(o) == o /= <<>>
Unwrap(o) == o[1]

\* A Hash256 is a pair <<origin, payload>>: "zero" is the all-zero digest, "id" a
\* digest handed in from outside (account, artefact, evidence), "blake3" the
\* digest of a byte string, which is collision free.
ZeroDigest == <<"zero", <<>>>>
IdDigest(n) == <<"id", <<n>>>>
Hash256_compute(data) == <<"blake3", data>>

\* WmProfile: four f32 values, carried as their bit patterns.
dummy_wm_profile ==
    [tau_input |-> 1, tau_feat |-> 2, logit_band_low |-> 3, logit_band_high |-> 4]

\* EvidenceRef { scheme_id, evidence_hash, wm_profile }; a string is the
\* sequence of its bytes.
EvidenceRef(scheme, eh) ==
    [scheme_id |-> scheme, evidence_hash |-> eh, wm_profile |-> dummy_wm_profile]

SchemeA == <<65>>
SchemeB == <<66>>

TxRegisterModel(owner, aid, evidence) ==
    [kind |-> "RegisterModel", owner |-> owner, aid |-> aid, evidence |-> evidence,
     fee |-> 0, nonce |-> 0, signature |-> <<>>]

TxTransfer(from, to, amount) ==
    [kind |-> "Transfer", from |-> from, to |-> to, amount |-> amount,
     fee |-> 0, nonce |-> 0, signature |-> <<>>]

TxUseModel(caller, aid) ==
    [kind |-> "UseModel", caller |-> caller, aid |-> aid,
     metadata |-> [task |-> <<84>>, version |-> None],
     fee |-> 0, nonce |-> 0, signature |-> <<>>]

Header(parent, height, timestamp, proposer, pos_proof) ==
    [parent |-> parent, height |-> height, timestamp |-> timestamp,
     proposer |-> proposer, pos_proof |-> pos_proof]

Block(header, txs) == [header |-> header, txs |-> txs]

(***************************************************************************)
(* Canonical encoding (bincode 2, standard configuration, through serde).  *)
(* A byte string is a sequence of tokens <<tag, value>>; TokenSize gives   *)
(* the number of bytes a token takes.                                      *)
(***************************************************************************)
TokHash(d) == <<"hash", d>>
TokInt(n) == <<"int", n>>
TokVariant(n) == <<"variant", n>>
TokOption(n) == <<"option", n>>
TokLen(n) == <<"len", n>>
TokByte(n) == <<"byte", n>>
TokF32(n) == <<"f32", n>>
TokVal(t) == t[2]

\* Every integer of the model is below 251 and takes one byte as a varint.
TokenSize(t) ==
    CASE t[1] = "hash" -> HASH_LEN
      [] t[1] = "f32" -> 4
      [] OTHER -> 1

\* The number of bytes of a byte string: the sum of its tokens' sizes.
RECURSIVE SumSizes(_, _)
SumSizes(bytes, i) ==
    IF i > Len(bytes) THEN 0 ELSE TokenSize(bytes[i]) + SumSizes(bytes, i + 1)

ByteLen(bytes) == SumSizes(bytes, 1)

EncBytes(s) == [i \in 1..Len(s) |-> TokByte(s[i])]

\* Vec<u8> and String: a length, then the bytes.
EncByteVec(s) == <<TokLen(Len(s))>> \o EncBytes(s)

EncOptionBytes(o) ==
    IF IsSome(o) THEN <<TokOption(1)>> \o EncByteVec(Unwrap(o)) ELSE <<TokOption(0)>>

EncWmProfile(p) ==
    <<TokF32(p.tau_input), TokF32(p.tau_feat),
      TokF32(p.logit_band_low), TokF32(p.logit_band_high)>>

EncEvidenceRef(e) ==
    EncByteVec(e.scheme_id) \o <<TokHash(e.evidence_hash)>> \o EncWmProfile(e.wm_profile)

EncTail(tx) == <<TokInt(tx.fee), TokInt(tx.nonce)>> \o EncByteVec(tx.signature)

EncTransaction(tx) ==
    CASE tx.kind = "RegisterModel" ->
             <<TokVariant(0), TokHash(tx.owner), TokHash(tx.aid)>>
                 \o EncEvidenceRef(tx.evidence) \o EncTail(tx)
      [] tx.kind = "UseModel" ->
             <<TokVariant(1), TokHash(tx.caller), TokHash(tx.aid)>>
                 \o EncByteVec(tx.metadata.task) \o EncOptionBytes(tx.metadata.version)
                 \o EncTail(tx)
      [] OTHER ->
             <<TokVariant(2), TokHash(tx.from), TokHash(tx.to), TokInt(tx.amount)>>
                 \o EncTail(tx)

RECURSIVE EncTxs(_, _)
EncTxs(txs, i) ==
    IF i > Len(txs) THEN <<>> ELSE EncTransaction(txs[i]) \o EncTxs(txs, i + 1)

EncHeader(h) ==
    <<TokHash(h.parent), TokInt(h.height), TokInt(h.timestamp), TokHash(h.proposer)>>
        \o EncOptionBytes(h.pos_proof)

canonical_bytes(block) ==
    EncHeader(block.header) \o <<TokLen(Len(block.txs))>> \o EncTxs(block.txs, 1)

compute_hash(block) == Hash256_compute(canonical_bytes(block))

\* #[derive(Clone)] on Block, Header and Transaction: a copy, field by field.
Block_clone(block) ==
    Block(Header(block.header.parent, block.header.height, block.header.timestamp,
                 block.header.proposer, block.header.pos_proof),
          [i \in 1..Len(block.txs) |-> block.txs[i]])

(***************************************************************************)
(* Decoding (bincode::serde::decode_from_slice).  A decoder returns        *)
(* [ok, val, rest]; ok is FALSE when the bytes do not hold the value.      *)
(***************************************************************************)
\* The only element of a set of one element.
The(S) == CHOOSE x \in S : TRUE

DecFail == [ok |-> FALSE, val |-> None, rest |-> <<>>]
DecOk(v, rest) == [ok |-> TRUE, val |-> v, rest |-> rest]
Drop(b, k) == SubSeq(b, k + 1, Len(b))
HasTags(b, tags) ==
    /\ Len(b) >= Len(tags)
    /\ \A i \in 1..Len(tags) : b[i][1] = tags[i]

\* The element x before the elements decoded in r.
DecCons(x, r0) ==
    The({(
        IF r.ok THEN DecOk(<<x>> \o r.val, r.rest) ELSE DecFail
    ) : r \in {r0}})

RECURSIVE DecBytes(_, _)
DecBytes(b, n) ==
    IF n = 0 THEN DecOk(<<>>, b)
    ELSE IF ~HasTags(b, <<"byte">>) THEN DecFail
    ELSE DecCons(TokVal(b[1]), DecBytes(Tail(b), n - 1))

DecByteVec(b) ==
    IF HasTags(b, <<"len">>) THEN DecBytes(Tail(b), TokVal(b[1])) ELSE DecFail

DecSome(r0) ==
    The({(
        IF r.ok THEN DecOk(Some(r.val), r.rest) ELSE DecFail
    ) : r \in {r0}})

\* DecOptionBytes reading an absent value as an empty byte string.
DecOptionBytes_none_as_empty(b) ==
    IF ~HasTags(b, <<"option">>) THEN DecFail
    ELSE IF TokVal(b[1]) = 0 THEN DecOk(Some(<<>>), Tail(b))
    ELSE DecSome(DecByteVec(Tail(b)))

DecOptionBytes(b) ==
    IF ~HasTags(b, <<"option">>) THEN DecFail
    ELSE IF TokVal(b[1]) = 0 THEN DecOk(None, Tail(b))
    ELSE DecSome(DecByteVec(Tail(b)))

\* fee, nonce, signature: the fields every transaction ends with; sig is the
\* decoded signature.
DecTailSig(b, sig0) ==
    The({(
        IF sig.ok
        THEN DecOk([fee |-> TokVal(b[1]), nonce |-> TokVal(b[2]), signature |-> sig.val],
                   sig.rest)
        ELSE DecFail
    ) : sig \in {sig0}})

DecTail(b) ==
    IF HasTags(b, <<"int", "int">>) THEN DecTailSig(b, DecByteVec(Drop(b, 2))) ELSE DecFail

\* scheme is the decoded scheme_id.
DecEvidenceRefScheme(scheme0) ==
    The({(
        IF ~scheme.ok \/ ~HasTags(scheme.rest, <<"hash", "f32", "f32", "f32", "f32">>)
        THEN DecFail
        ELSE DecOk([scheme_id |-> scheme.val, evidence_hash |-> TokVal(scheme.rest[1]),
                    wm_profile |-> [tau_input |-> TokVal(scheme.rest[2]),
                                    tau_feat |-> TokVal(scheme.rest[3]),
                                    logit_band_low |-> TokVal(scheme.rest[4]),
                                    logit_band_high |-> TokVal(scheme.rest[5])]],
                   Drop(scheme.rest, 5))
    ) : scheme \in {scheme0}})

DecEvidenceRef(b) == DecEvidenceRefScheme(DecByteVec(b))

\* A transaction from its decoded fields and its decoded tail t.
DecWithTail(fields, t0) ==
    The({(
        IF t.ok
        THEN DecOk([x \in DOMAIN fields \cup {"fee", "nonce", "signature"} |->
                       IF x \in DOMAIN fields THEN fields[x] ELSE t.val[x]], t.rest)
        ELSE DecFail
    ) : t \in {t0}})

DecRegisterModelEv(b, ev0) ==
    The({(
        IF ev.ok
        THEN DecWithTail([kind |-> "RegisterModel", owner |-> TokVal(b[1]),
                          aid |-> TokVal(b[2]), evidence |-> ev.val], DecTail(ev.rest))
        ELSE DecFail
    ) : ev \in {ev0}})

DecRegisterModel(b) ==
    IF HasTags(b, <<"hash", "hash">>)
    THEN DecRegisterModelEv(b, DecEvidenceRef(Drop(b, 2)))
    ELSE DecFail

DecUseModelVersion(b, task, ver0) ==
    The({(
        IF ver.ok
        THEN DecWithTail([kind |-> "UseModel", caller |-> TokVal(b[1]), aid |-> TokVal(b[2]),
                          metadata |-> [task |-> task.val, version |-> ver.val]],
                         DecTail(ver.rest))
        ELSE DecFail
    ) : ver \in {ver0}})

DecUseModelTask(b, task0) ==
    The({(
        IF task.ok THEN DecUseModelVersion(b, task, DecOptionBytes(task.rest)) ELSE DecFail
    ) : task \in {task0}})

DecUseModel(b) ==
    IF HasTags(b, <<"hash", "hash">>)
    THEN DecUseModelTask(b, DecByteVec(Drop(b, 2)))
    ELSE DecFail

DecTransfer(b) ==
    IF HasTags(b, <<"hash", "hash", "int">>)
    THEN DecWithTail([kind |-> "Transfer", from |-> TokVal(b[1]), to |-> TokVal(b[2]),
                      amount |-> TokVal(b[3])], DecTail(Drop(b, 3)))
    ELSE DecFail

DecTransaction(b) ==
    IF ~HasTags(b, <<"variant">>) THEN DecFail
    ELSE CASE TokVal(b[1]) = 0 -> DecRegisterModel(Tail(b))
           [] TokVal(b[1]) = 1 -> DecUseModel(Tail(b))
           [] TokVal(b[1]) = 2 -> DecTransfer(Tail(b))
           [] OTHER -> DecFail

RECURSIVE DecTxs(_, _)
\* n transactions; tx is the first of them, decoded.
DecTxsFirst(tx0, n) ==
    The({(
        IF tx.ok THEN DecCons(tx.val, DecTxs(tx.rest, n - 1)) ELSE DecFail
    ) : tx \in {tx0}})

DecTxs(b, n) == IF n = 0 THEN DecOk(<<>>, b) ELSE DecTxsFirst(DecTransaction(b), n)

\* pp is the decoded pos_proof.
DecHeaderProof(b, pp0) ==
    The({(
        IF pp.ok
        THEN DecOk(Header(TokVal(b[1]), TokVal(b[2]), TokVal(b[3]), TokVal(b[4]), pp.val),
                   pp.rest)
        ELSE DecFail
    ) : pp \in {pp0}})

DecHeader(b) ==
    IF HasTags(b, <<"hash", "int", "int", "hash">>)
    THEN DecHeaderProof(b, DecOptionBytes(Drop(b, 4)))
    ELSE DecFail

\* h is the decoded header, txs the decoded transactions.
DecBlockTxs(h, txs0) ==
    The({(
        IF txs.ok THEN Some(Block(h.val, txs.val)) ELSE None
    ) : txs \in {txs0}})

DecBlockHeader(h0) ==
    The({(
        IF h.ok /\ HasTags(h.rest, <<"len">>)
        THEN DecBlockTxs(h, DecTxs(Tail(h.rest), TokVal(h.rest[1])))
        ELSE None
    ) : h \in {h0}})

\* RocksDbBlockStore::decode_block: the block, or None when decoding fails.
\* Bytes left over after the block are not an error (the decoded length is
\* dropped).
decode_block(bytes) == DecBlockHeader(DecHeader(bytes))

(***************************************************************************)
(* Validity predicates.  A validation result is Ok or Err(message).        *)
(***************************************************************************)
Ok == [ok |-> TRUE, msg |-> "ok"]
Err(msg) == [ok |-> FALSE, msg |-> msg]

IsRegisterModel(tx) == tx.kind = "RegisterModel"

\* The limits a BaseValidity carries (BaseValidity::new copies them from the
\* ConsensusConfig), and the ones of the modelled engine.
BaseValidityOf(max_block_txs, max_block_size_bytes) ==
    [max_block_txs |-> max_block_txs, max_block_size_bytes |-> max_block_size_bytes]

EngineBaseValidity == BaseValidityOf(MaxBlockTxs, MaxBlockSizeBytes)

\* check_tx_count with an exclusive limit: a block of exactly max_block_txs
\* transactions is turned away.
BaseValidity_check_tx_count_exclusive(self, block) ==
    IF Len(block.txs) >= self.max_block_txs THEN Err("exceeds max_block_txs") ELSE Ok

BaseValidity_check_tx_count(self, block) ==
    IF Len(block.txs) > self.max_block_txs THEN Err("exceeds max_block_txs") ELSE Ok

BaseValidity_check_block_size(self, block) ==
    IF ByteLen(canonical_bytes(block)) > self.max_block_size_bytes
    THEN Err("exceeds max_block_size_bytes")
    ELSE Ok

check_tx_count(block) == BaseValidity_check_tx_count(EngineBaseValidity, block)

check_block_size(block) == BaseValidity_check_block_size(EngineBaseValidity, block)

RECURSIVE DuplicateAidIn(_, _)
DuplicateAidIn(txs, seen) ==
    IF txs = <<>> THEN FALSE
    ELSE IF IsRegisterModel(Head(txs))
         THEN IF Head(txs).aid \in seen THEN TRUE
              ELSE DuplicateAidIn(Tail(txs), seen \cup {Head(txs).aid})
         ELSE DuplicateAidIn(Tail(txs), seen)

\* check_duplicate_aids without the lookup: every block passes.
check_duplicate_aids_accepting(block) == Ok

check_duplicate_aids(block) ==
    IF DuplicateAidIn(block.txs, {}) THEN Err("duplicate Aid") ELSE Ok

\* validate without the duplicate aid check.
BaseValidity_validate_with_repeated_aids(self, block) ==
    IF ~BaseValidity_check_tx_count(self, block).ok
    THEN BaseValidity_check_tx_count(self, block)
    ELSE BaseValidity_check_block_size(self, block)

\* validate with the duplicate aid check first.
BaseValidity_validate_with_duplicates_first(self, block) ==
    IF ~check_duplicate_aids(block).ok
    THEN check_duplicate_aids(block)
    ELSE IF ~BaseValidity_check_tx_count(self, block).ok
    THEN BaseValidity_check_tx_count(self, block)
    ELSE BaseValidity_check_block_size(self, block)

BaseValidity_validate_with(self, block) ==
    IF ~BaseValidity_check_tx_count(self, block).ok
    THEN BaseValidity_check_tx_count(self, block)
    ELSE IF ~BaseValidity_check_block_size(self, block).ok
    THEN BaseValidity_check_block_size(self, block)
    ELSE check_duplicate_aids(block)

BaseValidity_validate(block) == BaseValidity_validate_with(EngineBaseValidity, block)

\* Block::ml_pairs: the (aid, evidence) of every RegisterModel, in block order.
RECURSIVE ml_pairs_of(_)
ml_pairs_of(txs) ==
    IF txs = <<>> THEN <<>>
    ELSE IF IsRegisterModel(Head(txs))
         THEN <<<<Head(txs).aid, Head(txs).evidence>>>> \o ml_pairs_of(Tail(txs))
         ELSE ml_pairs_of(Tail(txs))

ml_pairs(block) == ml_pairs_of(block.txs)

\* unique_pairs without the deduplication: every pair is kept.
unique_pairs_keeping_repeats(pairs, seen) == pairs

\* The pairs with a new (aid, evidence_hash) key, first occurrences kept.
RECURSIVE unique_pairs(_, _)
unique_pairs(pairs, seen) ==
    IF pairs = <<>> THEN <<>>
    ELSE LET key == <<Head(pairs)[1], Head(pairs)[2].evidence_hash>>
         IN  IF key \in seen THEN unique_pairs(Tail(pairs), seen)
             ELSE <<Head(pairs)>> \o unique_pairs(Tail(pairs), seen \cup {key})

\* What MlVerifier::verify can return: a verdict with ok = true or false, or one
\* of the three MlError kinds.
VerdictOk == "verdict_ok"
VerdictNotOk == "verdict_not_ok"
MlErrors == {"Transport", "Protocol", "Service"}
VerifyOutcomes == {VerdictOk, VerdictNotOk} \cup MlErrors

VerifyCall(pair, outcome) == [aid |-> pair[1], evidence |-> pair[2], outcome |-> outcome]

\* verify_each without the test of verdict.ok: a verdict with ok = false lets
\* the loop go on.
RECURSIVE verify_each_ignoring_verdict(_, _)
verify_each_ignoring_verdict(pairs, verifier) ==
    IF pairs = <<>> THEN [res |-> Ok, calls |-> <<>>]
    ELSE LET outcome == verifier[Head(pairs)]
             call == VerifyCall(Head(pairs), outcome)
         IN  IF outcome \in MlErrors
             THEN [res |-> Err("ML verifier error"), calls |-> <<call>>]
             ELSE LET r == verify_each_ignoring_verdict(Tail(pairs), verifier)
                  IN  [res |-> r.res, calls |-> <<call>> \o r.calls]

\* verify_each failing open: an MlError lets the loop go on as a verdict with
\* ok = true does.
RECURSIVE verify_each_failing_open(_, _)
verify_each_failing_open(pairs, verifier) ==
    IF pairs = <<>> THEN [res |-> Ok, calls |-> <<>>]
    ELSE LET outcome == verifier[Head(pairs)]
             call == VerifyCall(Head(pairs), outcome)
         IN  IF outcome = VerdictNotOk
             THEN [res |-> Err("ML authenticity check failed"), calls |-> <<call>>]
             ELSE LET r == verify_each_failing_open(Tail(pairs), verifier)
                  IN  [res |-> r.res, calls |-> <<call>> \o r.calls]

\* verify_each that goes on after a failure: every pair is asked about, and
\* the first failure is what it returns.
RECURSIVE verify_each_to_the_end(_, _)
verify_each_to_the_end(pairs, verifier) ==
    IF pairs = <<>> THEN [res |-> Ok, calls |-> <<>>]
    ELSE LET outcome == verifier[Head(pairs)]
             call == VerifyCall(Head(pairs), outcome)
             r == verify_each_to_the_end(Tail(pairs), verifier)
         IN  IF outcome \in MlErrors
             THEN [res |-> Err("ML verifier error"), calls |-> <<call>> \o r.calls]
             ELSE IF outcome /= VerdictOk
             THEN [res |-> Err("ML authenticity check failed"),
                   calls |-> <<call>> \o r.calls]
             ELSE [res |-> r.res, calls |-> <<call>> \o r.calls]

\* The loop over the unique pairs; verifier maps a pair to what verify returns
\* for it.  The result carries the calls made, in order.
RECURSIVE verify_each(_, _)
verify_each(pairs, verifier) ==
    IF pairs = <<>> THEN [res |-> Ok, calls |-> <<>>]
    ELSE LET outcome == verifier[Head(pairs)]
             call == VerifyCall(Head(pairs), outcome)
         IN  IF outcome \in MlErrors
             THEN [res |-> Err("ML verifier error"), calls |-> <<call>>]
             ELSE IF outcome /= VerdictOk
             THEN [res |-> Err("ML authenticity check failed"), calls |-> <<call>>]
             ELSE LET r == verify_each(Tail(pairs), verifier)
                  IN  [res |-> r.res, calls |-> <<call>> \o r.calls]

\* MlConfig, and the one of the modelled engine.
MlConfigOf(max_artefacts_per_block) == [max_artefacts_per_block |-> max_artefacts_per_block]

EngineMlConfig == MlConfigOf(MaxArtefactsPerBlock)

\* validate with the cap tested after the loop: the verifier is asked about
\* the pairs of a block that the cap then turns away.
MlValidity_validate_with_late_cap(cfg, block, verifier) ==
    LET unique == unique_pairs(ml_pairs(block), {})
    IN  IF Len(unique) > cfg.max_artefacts_per_block
        THEN [res |-> Err("exceeds max_artefacts_per_block"),
              calls |-> verify_each(unique, verifier).calls]
        ELSE verify_each(unique, verifier)

MlValidity_validate_with(cfg, block, verifier) ==
    LET unique == unique_pairs(ml_pairs(block), {})
    IN  IF Len(unique) > cfg.max_artefacts_per_block
        THEN [res |-> Err("exceeds max_artefacts_per_block"), calls |-> <<>>]
        ELSE verify_each(unique, verifier)

MlValidity_validate(block, verifier) == MlValidity_validate_with(EngineMlConfig, block, verifier)

\* CombinedValidator with the ML validator run first.
CombinedValidator_validate_with_ml_first(base, cfg, block, verifier) ==
    IF ~MlValidity_validate_with(cfg, block, verifier).res.ok
    THEN MlValidity_validate_with(cfg, block, verifier)
    ELSE [res |-> BaseValidity_validate_with(base, block),
          calls |-> MlValidity_validate_with(cfg, block, verifier).calls]

\* CombinedValidator over a BaseValidity and an MlValidity, in that order.
CombinedValidator_validate_with(base, cfg, block, verifier) ==
    IF ~BaseValidity_validate_with(base, block).ok
    THEN [res |-> BaseValidity_validate_with(base, block), calls |-> <<>>]
    ELSE MlValidity_validate_with(cfg, block, verifier)

CombinedValidator_validate(block, verifier) ==
    CombinedValidator_validate_with(EngineBaseValidity, EngineMlConfig, block, verifier)

(***************************************************************************)
(* Block stores.  A store is [kind, blocks, tip]: blocks maps a block hash *)
(* to the block (InMemoryBlockStore) or to its canonical bytes (the        *)
(* "blocks" column family of RocksDbBlockStore); tip is the tip cell: the  *)
(* hash, if any (InMemoryBlockStore), or the bytes, if any, under the      *)
(* "tip" key of the "meta" column family.  A write of the RocksDB store    *)
(* takes wrote: whether the database accepted it.                          *)
(***************************************************************************)
Put(f, k, v) == [x \in DOMAIN f \cup {k} |-> IF x = k THEN v ELSE f[x]]

InMemory_get_block(store, hash) ==
    IF hash \in DOMAIN store.blocks THEN Some(store.blocks[hash]) ELSE None

\* put_block keyed by the parent hash of the block instead of its own hash.
InMemory_put_block_under_parent(store, block) ==
    [store EXCEPT !.blocks = Put(store.blocks, block.header.parent, block)]

InMemory_put_block(store, block) ==
    [store EXCEPT !.blocks = Put(store.blocks, compute_hash(block), block)]

InMemory_set_tip(store, hash) == [store EXCEPT !.tip = Some(hash)]

RocksDb_get_block(store, hash) ==
    IF hash \in DOMAIN store.blocks THEN decode_block(store.blocks[hash]) ELSE None

RocksDb_put_block(store, block, wrote) ==
    IF wrote
    THEN [store EXCEPT !.blocks = Put(store.blocks, compute_hash(block),
                                      canonical_bytes(block))]
    ELSE store

\* The result of a storage operation: a value or a StorageError.
StorageOk(val) == [ok |-> TRUE, val |-> val, err |-> "none"]
StorageErr(err) == [ok |-> FALSE, val |-> None, err |-> err]

\* The BlockHash of 32 bytes read from the database: the hash whose bytes they
\* are.
HashOfBytes(bytes) ==
    IF Len(bytes) = 1 /\ bytes[1][1] = "hash" THEN TokVal(bytes[1]) ELSE <<"raw", bytes>>

\* RocksDbBlockStore::load_tip; store.tip is the entry of the key "tip" in the
\* meta column family, if there is one.
load_tip(store) ==
    IF ~IsSome(store.tip) THEN StorageOk(None)
    ELSE IF ByteLen(Unwrap(store.tip)) /= HASH_LEN THEN StorageErr("CorruptedMeta")
    ELSE StorageOk(Some(HashOfBytes(Unwrap(store.tip))))

\* RocksDbBlockStore::tip: load_tip().ok().flatten().
RocksDb_tip(store) == IF load_tip(store).ok THEN load_tip(store).val ELSE None

\* RocksDbBlockStore::store_tip: the entry is the 32 bytes of the hash.
store_tip(store, hash) == [store EXCEPT !.tip = Some(<<TokHash(hash)>>)]

RocksDb_set_tip(store, hash, wrote) ==
    IF wrote THEN store_tip(store, hash) ELSE store

get_block(store, hash) ==
    IF store.kind = "mem" THEN InMemory_get_block(store, hash)
    ELSE RocksDb_get_block(store, hash)

\* put_block that drops what the store held: the new block is the only one.
put_block_dropping_others(store, block, wrote) ==
    IF store.kind = "mem"
    THEN [store EXCEPT !.blocks = Put(<<>>, compute_hash(block), block)]
    ELSE IF wrote
    THEN [store EXCEPT !.blocks = Put(<<>>, compute_hash(block), canonical_bytes(block))]
    ELSE store

put_block(store, block, wrote) ==
    IF store.kind = "mem" THEN InMemory_put_block(store, block)
    ELSE RocksDb_put_block(store, block, wrote)

InMemory_tip(store) == store.tip

tip(store) == IF store.kind = "mem" THEN InMemory_tip(store) ELSE RocksDb_tip(store)

set_tip(store, hash, wrote) ==
    IF store.kind = "mem" THEN InMemory_set_tip(store, hash)
    ELSE RocksDb_set_tip(store, hash, wrote)

EmptyStore(kind) == [kind |-> kind, blocks |-> <<>>, tip |-> None]

(***************************************************************************)
(* Fork choice and proposer.                                               *)
(***************************************************************************)
\* should_update_tip with >= for >: a candidate of the tip's height wins.
should_update_tip_on_ties(store, current_tip, candidate) ==
    LET new_height == candidate.header.height
    IN  IF ~IsSome(current_tip) THEN TRUE
        ELSE LET tip_block == get_block(store, Unwrap(current_tip))
             IN  IF IsSome(tip_block)
                 THEN new_height >= Unwrap(tip_block).header.height
                 ELSE TRUE

\* should_update_tip that prefers every candidate, whatever its height.
should_update_tip_always(store, current_tip, candidate) == TRUE

should_update_tip(store, current_tip, candidate) ==
    LET new_height == candidate.header.height
    IN  IF ~IsSome(current_tip) THEN TRUE
        ELSE LET tip_block == get_block(store, Unwrap(current_tip))
             IN  IF IsSome(tip_block)
                 THEN new_height > Unwrap(tip_block).header.height
                 ELSE TRUE

\* height + 1 on u64 without overflow checks (a release build).
WrappingSucc(height) == (height + 1) % (MaxHeight + 1)

\* Whether build_block's height + 1 overflows on this store.
BuildOverflows(store) ==
    /\ IsSome(tip(store))
    /\ IsSome(get_block(store, Unwrap(tip(store))))
    /\ Unwrap(get_block(store, Unwrap(tip(store)))).header.height = MaxHeight

\* The height of the tip block; the tip is set and its block is stored.
TipBlockHeight(store) == Unwrap(get_block(store, Unwrap(tip(store)))).header.height

\* build_block that starts the chain anew when the batch is empty and empty
\* blocks are not allowed: the block does not go on the tip.
build_block_restarting_when_empty(store, proposer, txs, timestamp, allow_empty_blocks) ==
    LET tip_hash == tip(store)
        tip_block == IF IsSome(tip_hash) THEN get_block(store, Unwrap(tip_hash)) ELSE None
        on_tip == IsSome(tip_block) /\ ~(txs = <<>> /\ ~allow_empty_blocks)
        parent_hash == IF on_tip THEN Unwrap(tip_hash) ELSE ZeroDigest
        next_height == IF on_tip THEN WrappingSucc(Unwrap(tip_block).header.height) ELSE 0
    IN  Block(Header(parent_hash, next_height, timestamp, proposer, None), txs)

\* build_block that gives the new block the height of its parent.
build_block_at_parent_height(store, proposer, txs, timestamp, allow_empty_blocks) ==
    LET tip_hash == tip(store)
        tip_block == IF IsSome(tip_hash) THEN get_block(store, Unwrap(tip_hash)) ELSE None
        parent_hash == IF IsSome(tip_block) THEN Unwrap(tip_hash) ELSE ZeroDigest
        next_height == IF IsSome(tip_block) THEN Unwrap(tip_block).header.height ELSE 0
    IN  Block(Header(parent_hash, next_height, timestamp, proposer, None), txs)

\* txs is what tx_pool.select_for_block returned.
build_block(store, proposer, txs, timestamp, allow_empty_blocks) ==
    LET tip_hash == tip(store)
        tip_block == IF IsSome(tip_hash) THEN get_block(store, Unwrap(tip_hash)) ELSE None
        parent_hash == IF IsSome(tip_block) THEN Unwrap(tip_hash) ELSE ZeroDigest
        next_height == IF IsSome(tip_block)
                       THEN WrappingSucc(Unwrap(tip_block).header.height)
                       ELSE 0
        block_txs == IF txs = <<>> /\ ~allow_empty_blocks THEN <<>> ELSE txs
    IN  Block(Header(parent_hash, next_height, timestamp, proposer, None), block_txs)

(***************************************************************************)
(* QueuedTxPool of the API gateway: a FIFO queue of transactions.          *)
(***************************************************************************)
Min(a, b) == IF a < b THEN a ELSE b

QueuedTxPool_push(queue, tx) == Append(queue, tx)

\* select_for_block that returns the transactions and leaves them queued.
QueuedTxPool_select_for_block_keeping(queue, max_txs, max_bytes) ==
    [txs |-> SubSeq(queue, 1, Min(max_txs, Len(queue))), queue |-> queue]

\* select_for_block: the transactions returned and the queue left; max_bytes
\* is not looked at.
QueuedTxPool_select_for_block(queue, max_txs, max_bytes) ==
    [txs |-> SubSeq(queue, 1, Min(max_txs, Len(queue))),
     queue |-> SubSeq(queue, Min(max_txs, Len(queue)) + 1, Len(queue))]

(***************************************************************************)
(* Consensus engine (CombinedValidator(BaseValidity, MlValidity),          *)
(* LongestChainForkChoice).  An operation returns the store it leaves, the *)
(* value it returns, the verify calls it made, the steps it took and what  *)
(* became of its two writes ("none": not attempted).                       *)
(***************************************************************************)
RetOk(hash) == [ok |-> TRUE, err |-> "none", msg |-> "ok", hash |-> Some(hash)]
RetErr(err, msg) == [ok |-> FALSE, err |-> err, msg |-> msg, hash |-> None]

Wrote(store, ok) == IF store.kind = "mem" \/ ok THEN "ok" ELSE "failed"

\* import_block with put_block moved before validate: a block that fails
\* validation is stored all the same.
import_block_storing_first(store, block, verifier, io) ==
    LET v == CombinedValidator_validate(block, verifier)
        new_hash == compute_hash(block)
        current_tip == tip(store)
        update == should_update_tip(store, current_tip, block)
        stored == put_block(store, block, io.put)
    IN  IF ~v.res.ok
        THEN [store |-> stored, ret |-> RetErr("Validation", v.res.msg),
              calls |-> v.calls, steps |-> <<"put_block", "validate">>,
              put |-> Wrote(store, io.put), set_tip |-> "none"]
        ELSE IF update
        THEN [store |-> set_tip(stored, new_hash, io.tip), ret |-> RetOk(new_hash),
              calls |-> v.calls,
              steps |-> <<"put_block", "validate", "tip", "should_update_tip", "set_tip">>,
              put |-> Wrote(store, io.put), set_tip |-> Wrote(store, io.tip)]
        ELSE [store |-> stored, ret |-> RetOk(new_hash), calls |-> v.calls,
              steps |-> <<"put_block", "validate", "tip", "should_update_tip">>,
              put |-> Wrote(store, io.put), set_tip |-> "none"]

\* import_block with the fork choice asked after put_block: it sees the store
\* that already holds the new block.
import_block_choosing_after_put(store, block, verifier, io) ==
    LET v == CombinedValidator_validate(block, verifier)
        new_hash == compute_hash(block)
        stored == put_block(store, block, io.put)
        update == should_update_tip(stored, tip(stored), block)
    IN  IF ~v.res.ok
        THEN [store |-> store, ret |-> RetErr("Validation", v.res.msg),
              calls |-> v.calls, steps |-> <<"validate">>,
              put |-> "none", set_tip |-> "none"]
        ELSE IF update
        THEN [store |-> set_tip(stored, new_hash, io.tip), ret |-> RetOk(new_hash),
              calls |-> v.calls,
              steps |-> <<"validate", "put_block", "tip", "should_update_tip", "set_tip">>,
              put |-> Wrote(store, io.put), set_tip |-> Wrote(store, io.tip)]
        ELSE [store |-> stored, ret |-> RetOk(new_hash), calls |-> v.calls,
              steps |-> <<"validate", "put_block", "tip", "should_update_tip">>,
              put |-> Wrote(store, io.put), set_tip |-> "none"]

\* import_block that turns away a block whose parent is neither the all-zero
\* digest nor a stored block.
import_block_checking_parent(store, block, verifier, io) ==
    LET v == CombinedValidator_validate(block, verifier)
        new_hash == compute_hash(block)
        current_tip == tip(store)
        update == should_update_tip(store, current_tip, block)
        stored == put_block(store, block, io.put)
        linked == \/ block.header.parent = ZeroDigest
                  \/ IsSome(get_block(store, block.header.parent))
    IN  IF ~v.res.ok \/ ~linked
        THEN [store |-> store,
              ret |-> RetErr("Validation", IF v.res.ok THEN "unknown parent" ELSE v.res.msg),
              calls |-> v.calls, steps |-> <<"validate">>,
              put |-> "none", set_tip |-> "none"]
        ELSE IF update
        THEN [store |-> set_tip(stored, new_hash, io.tip), ret |-> RetOk(new_hash),
              calls |-> v.calls,
              steps |-> <<"validate", "tip", "should_update_tip", "put_block", "set_tip">>,
              put |-> Wrote(store, io.put), set_tip |-> Wrote(store, io.tip)]
        ELSE [store |-> stored, ret |-> RetOk(new_hash), calls |-> v.calls,
              steps |-> <<"validate", "tip", "should_update_tip", "put_block">>,
              put |-> Wrote(store, io.put), set_tip |-> "none"]

\* io.put and io.tip: whether the database accepts the write of the block and
\* of the tip.
import_block(store, block, verifier, io) ==
    LET v == CombinedValidator_validate(block, verifier)
        new_hash == compute_hash(block)
        current_tip == tip(store)
        update == should_update_tip(store, current_tip, block)
        stored == put_block(store, block, io.put)
    IN  IF ~v.res.ok
        THEN [store |-> store, ret |-> RetErr("Validation", v.res.msg),
              calls |-> v.calls, steps |-> <<"validate">>,
              put |-> "none", set_tip |-> "none"]
        ELSE IF update
        THEN [store |-> set_tip(stored, new_hash, io.tip), ret |-> RetOk(new_hash),
              calls |-> v.calls,
              steps |-> <<"validate", "tip", "should_update_tip", "put_block", "set_tip">>,
              put |-> Wrote(store, io.put), set_tip |-> Wrote(store, io.tip)]
        ELSE [store |-> stored, ret |-> RetOk(new_hash), calls |-> v.calls,
              steps |-> <<"validate", "tip", "should_update_tip", "put_block">>,
              put |-> Wrote(store, io.put), set_tip |-> "none"]

\* overflow_checks: whether the build panics on integer overflow (a debug
\* build) or wraps (a release build).
propose_block(store, proposer_id, txs, timestamp, allow_empty_blocks, overflow_checks, verifier, io) ==
    IF overflow_checks /\ BuildOverflows(store)
    THEN [store |-> store, ret |-> RetErr("panic", "attempt to add with overflow"),
          calls |-> <<>>, steps |-> <<"build_block">>,
          put |-> "none", set_tip |-> "none", block |-> None]
    ELSE The({The({[store |-> r.store, ret |-> r.ret, calls |-> r.calls,
                    steps |-> <<"build_block">> \o r.steps,
                    put |-> r.put, set_tip |-> r.set_tip, block |-> Some(block)] :
                   r \in {import_block(store, block, verifier, io)}}) :
              block \in {build_block(store, proposer_id, txs, timestamp,
                                     allow_empty_blocks)}})

(***************************************************************************)
(* Inputs.                                                                 *)
(***************************************************************************)
Acct1 == IdDigest(1)
Acct2 == IdDigest(2)
RegA == TxRegisterModel(Acct1, IdDigest(11), EvidenceRef(SchemeA, IdDigest(21)))
\* The artefact and evidence hash of RegA under another scheme.
RegA2 == TxRegisterModel(Acct2, IdDigest(11), EvidenceRef(SchemeB, IdDigest(21)))

\* The artefact of RegA with another evidence hash, another artefact, and a
\* transaction that registers nothing.
RegA3 == TxRegisterModel(Acct1, IdDigest(11), EvidenceRef(SchemeA, IdDigest(23)))
RegB == TxRegisterModel(Acct2, IdDigest(12), EvidenceRef(SchemeA, IdDigest(22)))
Xfer == TxTransfer(Acct1, Acct2, 1)

\* Timestamp and transactions of the blocks handed to import_block.
Bodies ==
    {[timestamp |-> 2, txs |-> <<RegA>>],
     [timestamp |-> 2, txs |-> <<RegA, RegA2>>],
     [timestamp |-> 1, txs |-> <<RegA, RegA2, RegA>>]}

ImportCandidates ==
    {Block(Header(ZeroDigest, height, b.timestamp, Acct1, None), b.txs) :
        height \in 0..MaxHeight, b \in Bodies}

\* Arguments of propose_block; txs is what the pool's select_for_block returns.
ProposeInputs ==
    {[proposer_id |-> Acct1, timestamp |-> 1, txs |-> <<>>],
     [proposer_id |-> Acct1, timestamp |-> 1, txs |-> <<RegA, RegA2>>],
     [proposer_id |-> Acct2, timestamp |-> 2, txs |-> <<RegA>>]}

\* The verifiers to tell apart on a block: what verify returns for each pair
\* the validator asks about, up to the first pair it does not pass (no later
\* pair is asked about).  A block the base validator rejects reaches no verifier.
Asked(block) ==
    IF BaseValidity_validate(block).ok /\
       Len(unique_pairs(ml_pairs(block), {})) <= MaxArtefactsPerBlock
    THEN unique_pairs(ml_pairs(block), {})
    ELSE <<>>

Verifiers(block) ==
    LET pairs == ml_pairs(block)
        asked == Asked(block)
        P == {pairs[i] : i \in 1..Len(pairs)}
        A == {asked[i] : i \in 1..Len(asked)}
    IN  {f \in [P -> VerifyOutcomes] :
            /\ \A p \in P \ A : f[p] = VerdictOk
            /\ \A i \in 1..Len(asked), j \in 1..Len(asked) :
                  (i < j /\ f[asked[i]] /= VerdictOk) => f[asked[j]] = VerdictOk}

AllWritten == [put |-> TRUE, tip |-> TRUE]

\* What the database can answer to the writes of one import: the in-memory
\* store has no failing write, and a write that is not attempted has no answer.
IoOutcomes(st, block, verifier) ==
    IF st.kind = "mem" \/ ~CombinedValidator_validate(block, verifier).res.ok
    THEN {AllWritten}
    ELSE IF should_update_tip(st, tip(st), block)
    THEN [put : BOOLEAN, tip : BOOLEAN]
    ELSE [put : BOOLEAN, tip : {TRUE}]

\* The builds to tell apart on a store: with and without overflow checks where
\* the proposer's addition overflows.
OverflowChecks(st) == IF BuildOverflows(st) THEN BOOLEAN ELSE {FALSE}

\* ConsensusConfig.allow_empty_blocks, consulted on an empty batch only.
AllowEmptyBlocks(txs) == IF txs = <<>> THEN BOOLEAN ELSE {TRUE}

\* The blocks handed to the validators on their own: every sequence of at most
\* MaxValidatedTxs transactions.
SeqsUpTo(S, n) == UNION {[1..k -> S] : k \in 0..n}

ValidatedTxs == {RegA, RegA2, RegA3, RegB, Xfer}

ValidatedBlocks ==
    {Block(Header(ZeroDigest, 0, 1, Acct1, None), txs) :
        txs \in SeqsUpTo(ValidatedTxs, MaxValidatedTxs)}

\* The limits of a BaseValidity to tell apart on a block: every transaction
\* limit, and a size limit that admits the block exactly or misses it by one byte.
BaseLimits(block) ==
    {BaseValidityOf(n, m) :
        n \in 0..MaxValidatedTxs,
        m \in {ByteLen(canonical_bytes(block)) - 1, ByteLen(canonical_bytes(block))}}

MlLimits == {MlConfigOf(n) : n \in 0..MaxValidatedTxs}

\* Every verifier, as far as the block's pairs go.
AllVerifiers(block) ==
    [{ml_pairs(block)[i] : i \in 1..Len(ml_pairs(block))} -> VerifyOutcomes]

\* The verifiers handed to a CombinedValidator: one answer of each sort (a
\* verdict with ok = true, one with ok = false, an MlError) for each pair.
CombinedVerifiers(block) ==
    [{ml_pairs(block)[i] : i \in 1..Len(ml_pairs(block))} ->
        {VerdictOk, VerdictNotOk, "Service"}]

\* The limits of a CombinedValidator to tell apart on a block: the base
\* validator stops it by count, by size, or lets it through, and the artefact
\* cap admits its unique pairs exactly or misses them by one.
CombinedBaseLimits(block) ==
    {self \in BaseLimits(block) :
        \/ self.max_block_txs = Len(block.txs) - 1
        \/ self.max_block_txs = Len(block.txs)}

CombinedMlLimits(block) ==
    {cfg \in MlLimits :
        \/ cfg.max_artefacts_per_block = Len(unique_pairs(ml_pairs(block), {})) - 1
        \/ cfg.max_artefacts_per_block = Len(unique_pairs(ml_pairs(block), {}))}

(***************************************************************************)
(* State: the engine's store, the last call with what it returned, the     *)
(* counter consensus_blocks_rejected_ml of the node's ConsensusMetrics,    *)
(* the queue of the gateway's QueuedTxPool, and a log of what was pushed   *)
(* to the pool and what its select_for_block calls returned, in order.     *)
(***************************************************************************)
VARIABLES store, last, blocks_rejected_ml, tx_pool, pool_log, tasks

vars == <<store, last, blocks_rejected_ml, tx_pool, pool_log, tasks>>

NoLog == [pushed |-> <<>>, returned |-> <<>>]

\* The tasks of the gateway and its two tokio mutexes: where each task is,
\* how many of its locks it holds, the owner of each mutex and the tasks
\* waiting for it, first come first.  The producer is task 0, the handlers
\* of POST /models are tasks 1..MaxHandlers.
Producer == 0

Handlers == 1..MaxHandlers

Tasks == {Producer} \cup Handlers

Mutexes == {"engine", "tx_pool"}

NoTasks ==
    [pc |-> [t \in Tasks |-> "ready"],
     held |-> [t \in Tasks |-> 0],
     owner |-> [m \in Mutexes |-> None],
     waiters |-> [m \in Mutexes |-> <<>>]]

Called(op, block, r) ==
    [op |-> op, block |-> block, ret |-> r.ret, calls |-> r.calls, steps |-> r.steps,
     put |-> r.put, set_tip |-> r.set_tip]

\* A call of propose_block by an engine whose ConsensusConfig has this
\* allow_empty_blocks.
Proposed(r, allow_empty_blocks) ==
    [op |-> "propose", block |-> r.block, ret |-> r.ret, calls |-> r.calls,
     steps |-> r.steps, put |-> r.put, set_tip |-> r.set_tip,
     allow_empty_blocks |-> allow_empty_blocks]

NoCall ==
    [op |-> "none", block |-> None, ret |-> RetErr("none", "none"), calls |-> <<>>,
     steps |-> <<>>, put |-> "none", set_tip |-> "none"]

\* The node of main.rs: the engine over a RocksDB store.
Init ==
    /\ store = EmptyStore("rocksdb")
    /\ last = NoCall
    /\ blocks_rejected_ml = 0
    /\ tx_pool = <<>>
    /\ pool_log = NoLog
    /\ tasks = NoTasks

\* The engine of the unit tests: over the in-memory store.
InitMem ==
    /\ store = EmptyStore("mem")
    /\ last = NoCall
    /\ blocks_rejected_ml = 0
    /\ tx_pool = <<>>
    /\ pool_log = NoLog
    /\ tasks = NoTasks

CanCall == Cardinality(DOMAIN store.blocks) < MaxBlocks

ImportBlock ==
    /\ CanCall
    /\ \E block \in ImportCandidates :
       \E verifier \in Verifiers(block) :
       \E io \in IoOutcomes(store, block, verifier) :
          LET r == import_block(store, block, verifier, io)
          IN  /\ store' = r.store
              /\ last' = Called("import", Some(block), r)
              /\ UNCHANGED <<blocks_rejected_ml, tx_pool, pool_log, tasks>>

ProposeBlock ==
    /\ CanCall
    /\ \E in \in ProposeInputs :
       \E allow_empty_blocks \in AllowEmptyBlocks(in.txs),
          overflow_checks \in OverflowChecks(store) :
       LET built == build_block(store, in.proposer_id, in.txs, in.timestamp,
                                allow_empty_blocks)
       IN  \E verifier \in Verifiers(built) :
           \E io \in IoOutcomes(store, built, verifier) :
              LET r == propose_block(store, in.proposer_id, in.txs, in.timestamp,
                                     allow_empty_blocks, overflow_checks, verifier, io)
              IN  /\ store' = r.store
                  /\ last' = Proposed(r, allow_empty_blocks)
                  /\ UNCHANGED <<blocks_rejected_ml, tx_pool, pool_log, tasks>>

Next == ImportBlock \/ ProposeBlock

Spec == Init /\ [][Next]_vars

SpecMem == InitMem /\ [][Next]_vars

(***************************************************************************)
(* The validators on their own: last is the call of validate, with the     *)
(* validator's limits, the block and the verifier, and once it is done the *)
(* result and the calls of verify it made.                                 *)
(***************************************************************************)
Validate(op, base, cfg, block, verifier) ==
    [op |-> op, base |-> base, cfg |-> cfg, block |-> Some(block), verifier |-> verifier,
     done |-> FALSE, ret |-> Ok, calls |-> <<>>]

Validated(call, r) == [call EXCEPT !.done = TRUE, !.ret = r.res, !.calls = r.calls]

\* A call of validate about to be made: a validator with its limits, a block
\* and a verifier.
InitValidators ==
    /\ store = EmptyStore("mem")
    /\ blocks_rejected_ml = 0
    /\ tx_pool = <<>>
    /\ pool_log = NoLog
    /\ tasks = NoTasks
    /\ \E block \in ValidatedBlocks :
       \/ \E self \in BaseLimits(block) :
             last = Validate("BaseValidity", Some(self), None, block, <<>>)
       \/ \E cfg \in MlLimits, verifier \in AllVerifiers(block) :
             last = Validate("MlValidity", None, Some(cfg), block, verifier)
       \/ \E base \in CombinedBaseLimits(block), cfg \in CombinedMlLimits(block) :
          \E verifier \in CombinedVerifiers(block) :
             last = Validate("CombinedValidator", Some(base), Some(cfg), block, verifier)

BaseValidate ==
    /\ last.op = "BaseValidity" /\ ~last.done
    /\ last' = Validated(last, [res |-> BaseValidity_validate_with(Unwrap(last.base), Unwrap(last.block)), calls |-> <<>>])
    /\ UNCHANGED <<store, blocks_rejected_ml, tx_pool, pool_log, tasks>>

MlValidate ==
    /\ last.op = "MlValidity" /\ ~last.done
    /\ last' = Validated(last, MlValidity_validate_with(Unwrap(last.cfg), Unwrap(last.block), last.verifier))
    /\ UNCHANGED <<store, blocks_rejected_ml, tx_pool, pool_log, tasks>>

CombinedValidate ==
    /\ last.op = "CombinedValidator" /\ ~last.done
    /\ last' = Validated(last, CombinedValidator_validate_with(Unwrap(last.base), Unwrap(last.cfg), Unwrap(last.block), last.verifier))
    /\ UNCHANGED <<store, blocks_rejected_ml, tx_pool, pool_log, tasks>>

NextValidators == BaseValidate \/ MlValidate \/ CombinedValidate

SpecValidators == InitValidators /\ [][NextValidators]_vars

(***************************************************************************)
(* Hashing on its own: last is a block and, once compute_hash is done, the *)
(* hash of the block, of its clone and of the block decoded from its       *)
(* canonical bytes.                                                        *)
(***************************************************************************)
UseM == TxUseModel(Acct2, IdDigest(11))

HashedBlocks ==
    {Block(Header(parent, height, 1, Acct1, pos_proof), txs) :
        parent \in {ZeroDigest, IdDigest(3)}, height \in 0..MaxHeight,
        pos_proof \in {None, Some(<<7>>)},
        txs \in SeqsUpTo({RegA, Xfer, UseM}, MaxHashedTxs)}

InitHash ==
    /\ store = EmptyStore("mem")
    /\ blocks_rejected_ml = 0
    /\ tx_pool = <<>>
    /\ pool_log = NoLog
    /\ tasks = NoTasks
    /\ \E block \in HashedBlocks :
          last = [op |-> "compute_hash", block |-> Some(block), done |-> FALSE,
                  hash |-> None, clone_hash |-> None, decoded |-> None,
                  decoded_hash |-> None]

HashOfDecoded(decoded) == IF IsSome(decoded) THEN Some(compute_hash(Unwrap(decoded))) ELSE None

ComputeHash ==
    /\ last.op = "compute_hash" /\ ~last.done
    /\ last' = [last EXCEPT
                  !.done = TRUE,
                  !.hash = Some(compute_hash(Unwrap(last.block))),
                  !.clone_hash = Some(compute_hash(Block_clone(Unwrap(last.block)))),
                  !.decoded = decode_block(canonical_bytes(Unwrap(last.block))),
                  !.decoded_hash =
                      HashOfDecoded(decode_block(canonical_bytes(Unwrap(last.block))))]
    /\ UNCHANGED <<store, blocks_rejected_ml, tx_pool, pool_log, tasks>>

NextHash == ComputeHash

SpecHash == InitHash /\ [][NextHash]_vars

(***************************************************************************)
(* The stores on their own, in-memory and RocksDB: last is the call of     *)
(* put_block or set_tip, and whether its write reached the database.       *)
(***************************************************************************)
StoreBlocks == ImportCandidates

\* before is what get_block(hash) returned before the call.
StoreCalled(op, block, hash, before, wrote) ==
    [op |-> op, block |-> block, hash |-> hash, before |-> before, put |-> wrote]

\* What an existing database can hold under the key "tip" when it is opened:
\* bytes of any length.
TipEntries == {[i \in 1..n |-> TokByte(0)] : n \in {HASH_LEN - 1, HASH_LEN, HASH_LEN + 1}}

OpenedStores ==
    {EmptyStore("rocksdb")}
        \cup {[EmptyStore("rocksdb") EXCEPT !.tip = Some(entry)] : entry \in TipEntries}

\* A new in-memory store, or a RocksDB store opened on a new or an existing
\* database.
InitStores ==
    /\ store \in {EmptyStore("mem")} \cup OpenedStores
    /\ last = NoCall
    /\ blocks_rejected_ml = 0
    /\ tx_pool = <<>>
    /\ pool_log = NoLog
    /\ tasks = NoTasks

WriteOutcomes(st) == IF st.kind = "mem" THEN {TRUE} ELSE BOOLEAN

PutBlock ==
    /\ CanCall
    /\ \E block \in StoreBlocks :
       \E wrote \in WriteOutcomes(store) :
          /\ store' = put_block(store, block, wrote)
          /\ last' = StoreCalled("put_block", Some(block), compute_hash(block),
                                 get_block(store, compute_hash(block)),
                                 Wrote(store, wrote))
          /\ UNCHANGED <<blocks_rejected_ml, tx_pool, pool_log, tasks>>

SetTip ==
    \E block \in StoreBlocks :
    \E wrote \in WriteOutcomes(store) :
       /\ store' = set_tip(store, compute_hash(block), wrote)
       /\ last' = StoreCalled("set_tip", None, compute_hash(block),
                              get_block(store, compute_hash(block)), Wrote(store, wrote))
       /\ UNCHANGED <<blocks_rejected_ml, tx_pool, pool_log, tasks>>

\* tip(), with what load_tip returned to it (RocksDB only).
ReadTip ==
    /\ last' = [op |-> "tip", block |-> None, hash |-> None, before |-> None,
                put |-> "none", ret |-> tip(store),
                load_tip |-> IF store.kind = "mem" THEN StorageOk(tip(store))
                             ELSE load_tip(store)]
    /\ UNCHANGED <<store, blocks_rejected_ml, tx_pool, pool_log, tasks>>

NextStores == PutBlock \/ SetTip \/ ReadTip

SpecStores == InitStores /\ [][NextStores]_vars

(***************************************************************************)
(* The pool on its own: push and select_for_block in any order.            *)
(***************************************************************************)
PoolTxs == {RegA, RegB}

InitPool == InitMem

Push ==
    /\ Len(pool_log.pushed) < MaxPushed
    /\ \E tx \in PoolTxs :
          /\ tx_pool' = QueuedTxPool_push(tx_pool, tx)
          /\ pool_log' = [pool_log EXCEPT !.pushed = Append(@, tx)]
          /\ last' = [op |-> "push", tx |-> tx, queue |-> tx_pool]
    /\ UNCHANGED <<store, blocks_rejected_ml, tasks>>

\* last.queue is the queue the call found.
SelectForBlock ==
    /\ \E max_txs \in 0..MaxPushed, max_bytes \in {0, MaxBlockSizeBytes} :
          LET r == QueuedTxPool_select_for_block(tx_pool, max_txs, max_bytes)
          IN  /\ tx_pool' = r.queue
              /\ pool_log' = [pool_log EXCEPT !.returned = @ \o r.txs]
              /\ last' = [op |-> "select_for_block", max_txs |-> max_txs,
                          max_bytes |-> max_bytes, queue |-> tx_pool, txs |-> r.txs]
    /\ UNCHANGED <<store, blocks_rejected_ml, tasks>>

NextPool == Push \/ SelectForBlock

SpecPool == InitPool /\ [][NextPool]_vars

(***************************************************************************)
(* The API gateway: register_model pushes a RegisterModel transaction to   *)
(* the pool, and every turn of run_block_producer has the engine propose a *)
(* block from the pool.  The database accepts every write, the verifier    *)
(* answers ok = true for every artefact but that of RegB, and the clock    *)
(* stands still.                                                           *)
(***************************************************************************)
GatewayProposer == Hash256_compute(<<112>>)

GatewayVerifier(block) ==
    [pair \in {ml_pairs(block)[i] : i \in 1..Len(ml_pairs(block))} |->
        IF pair[1] = RegB.aid THEN VerdictNotOk ELSE VerdictOk]

\* The transactions POST /models queues: two of one artefact and one the
\* verifier refuses.
GatewayTxs == {RegA, RegA2, RegB}

\* The next block is below the last height the model has.
ChainHasRoom == IF IsSome(tip(store)) THEN TipBlockHeight(store) + 1 < MaxHeight ELSE TRUE

InitGateway == Init

register_model ==
    /\ Len(pool_log.pushed) < MaxPushed
    /\ ChainHasRoom
    /\ \E tx \in GatewayTxs :
          /\ tx_pool' = QueuedTxPool_push(tx_pool, tx)
          /\ pool_log' = [pool_log EXCEPT !.pushed = Append(@, tx)]
          /\ last' = [op |-> "register_model", tx |-> tx, queue |-> tx_pool]
    /\ UNCHANGED <<store, blocks_rejected_ml, tasks>>

\* A turn that puts the selected transactions back at the front of the queue
\* when the proposal fails.
ProducerTurn_requeueing(st, queue) ==
    The({The({The({[sel |-> IF r.ret.ok THEN sel ELSE [txs |-> sel.txs, queue |-> queue],
                    r |-> r] :
                 r \in {propose_block(st, GatewayProposer, sel.txs, 1, TRUE, FALSE,
                            verifier, AllWritten)}}) :
            verifier \in {GatewayVerifier(build_block(st, GatewayProposer, sel.txs, 1, TRUE))}}) :
        sel \in {QueuedTxPool_select_for_block(queue, MaxBlockTxs, MaxBlockSizeBytes)}})

\* What one turn of the loop of run_block_producer does to the pool and
\* through propose_block.
ProducerTurn(st, queue) ==
    The({The({The({[sel |-> sel, r |-> r] :
                 r \in {propose_block(st, GatewayProposer, sel.txs, 1, TRUE, FALSE,
                            verifier, AllWritten)}}) :
            verifier \in {GatewayVerifier(build_block(st, GatewayProposer, sel.txs, 1, TRUE))}}) :
        sel \in {QueuedTxPool_select_for_block(queue, MaxBlockTxs, MaxBlockSizeBytes)}})

run_block_producer ==
    /\ ~BuildOverflows(store)
    /\ \E turn \in {ProducerTurn(store, tx_pool)} :
          /\ store' = turn.r.store
          /\ tx_pool' = turn.sel.queue
          /\ pool_log' = [pool_log EXCEPT !.returned = @ \o turn.sel.txs]
          /\ last' = Called("propose", turn.r.block, turn.r)
    /\ UNCHANGED <<blocks_rejected_ml, tasks>>

NextGateway == register_model \/ run_block_producer

\* The loop of run_block_producer never ends, and takes its next turn after
\* a sleep.
SpecGateway == InitGateway /\ [][NextGateway]_vars /\ WF_vars(run_block_producer)

(***************************************************************************)
(* The tasks of the gateway under their locks.  run_block_producer locks    *)
(* state.engine and then state.tx_pool, proposes, drops both guards at the  *)
(* end of the scope and sleeps; the handler of POST /models locks           *)
(* state.tx_pool, pushes and drops the guard.  A tokio Mutex gives the lock *)
(* to its waiters in the order they asked, and a task that can run is run.  *)
(***************************************************************************)
ProducerLocks == <<"engine", "tx_pool">>

\* A handler that locks the engine after the pool.
HandlerLocks_then_engine == <<"tx_pool", "engine">>

HandlerLocks == <<"tx_pool">>

LocksOf(t) == IF t = Producer THEN ProducerLocks ELSE HandlerLocks

\* The transaction the handler t queues.
HandlerTx(t) == <<RegA, RegB, RegA2>>[((t - 1) % 3) + 1]

\* Mutex::lock: the task owns a free mutex at once, and waits behind the
\* others for a held one.
Mutex_lock(tk, t, m) ==
    IF tk.owner[m] = None
    THEN [tk EXCEPT !.owner[m] = Some(t), !.held[t] = @ + 1]
    ELSE [tk EXCEPT !.waiters[m] = Append(@, t), !.pc[t] = "waiting"]

\* The drop of a MutexGuard: the mutex goes to its first waiter, which runs
\* on, or is free.
MutexGuard_drop(tk, m) ==
    IF tk.waiters[m] = <<>>
    THEN [tk EXCEPT !.owner[m] = None]
    ELSE [tk EXCEPT !.owner[m] = Some(Head(tk.waiters[m])),
                    !.waiters[m] = Tail(@),
                    !.held[Head(tk.waiters[m])] = @ + 1,
                    !.pc[Head(tk.waiters[m])] = "ready"]

\* The guards of a scope are dropped last first.
RECURSIVE DropGuards(_, _, _)
DropGuards(tk, locks, n) ==
    IF n = 0 THEN tk ELSE DropGuards(MutexGuard_drop(tk, locks[n]), locks, n - 1)

\* The task t leaves its scope: every guard is dropped, the producer sleeps
\* and a handler answers 202.
EndScope(tk, t) ==
    LET dropped == DropGuards(tk, LocksOf(t), tk.held[t])
    IN  [dropped EXCEPT !.held[t] = 0,
                        !.pc[t] = IF t = Producer THEN "sleeping" ELSE "done"]

HoldsAll(t) == tasks.pc[t] = "ready" /\ tasks.held[t] = Len(LocksOf(t))

InitTasks == Init

\* The next lock().await of the task t.
Lock(t) ==
    /\ tasks.pc[t] = "ready"
    /\ tasks.held[t] < Len(LocksOf(t))
    /\ tasks' = Mutex_lock(tasks, t, LocksOf(t)[tasks.held[t] + 1])
    /\ last' = [op |-> "lock", task |-> t]
    /\ UNCHANGED <<store, blocks_rejected_ml, tx_pool, pool_log>>

\* The turn of the producer under its guards.
Propose ==
    /\ HoldsAll(Producer)
    /\ \E turn \in {ProducerTurn(store, tx_pool)} :
          /\ store' = turn.r.store
          /\ tx_pool' = turn.sel.queue
          /\ pool_log' = [pool_log EXCEPT !.returned = @ \o turn.sel.txs]
          /\ last' = Called("propose", turn.r.block, turn.r)
    /\ tasks' = EndScope(tasks, Producer)
    /\ UNCHANGED blocks_rejected_ml

\* The push of the handler t under its guard.
PushQueued(t) ==
    /\ t \in Handlers
    /\ HoldsAll(t)
    /\ tx_pool' = QueuedTxPool_push(tx_pool, HandlerTx(t))
    /\ pool_log' = [pool_log EXCEPT !.pushed = Append(@, HandlerTx(t))]
    /\ last' = [op |-> "register_model", tx |-> HandlerTx(t), queue |-> tx_pool]
    /\ tasks' = EndScope(tasks, t)
    /\ UNCHANGED <<store, blocks_rejected_ml>>

\* The end of the sleep of the producer.
Wake ==
    /\ tasks.pc[Producer] = "sleeping"
    /\ ~BuildOverflows(store)
    /\ tasks' = [tasks EXCEPT !.pc[Producer] = "ready"]
    /\ last' = [op |-> "wake", task |-> Producer]
    /\ UNCHANGED <<store, blocks_rejected_ml, tx_pool, pool_log>>

NextTasks == (\E t \in Tasks : Lock(t)) \/ Propose \/ (\E t \in Handlers : PushQueued(t)) \/ Wake

SpecTasks ==
    /\ InitTasks
    /\ [][NextTasks]_vars
    /\ \A t \in Tasks : WF_vars(Lock(t))
    /\ WF_vars(Propose)
    /\ \A t \in Handlers : WF_vars(PushQueued(t))

(***************************************************************************)
(* HttpMlVerifier on its own.  An exchange is what the network and the ML   *)
(* service do with one request: whether send returns a response, its        *)
(* status, whether its body can be read to the end, and the body.  A body   *)
(* is text that is not JSON, or a JSON object: a function from field names  *)
(* to JSON values <<type, value>>.  last is a call of verify, with the      *)
(* exchange it meets and, once it is done, what it returned and the         *)
(* requests it sent.                                                        *)
(***************************************************************************)
JsonBool(b) == <<"bool", b>>
JsonNumber(n) == <<"number", n>>
JsonNull == <<"null", 0>>
JsonString(str) == <<"string", str>>
NotJson == [json |-> FALSE, fields |-> <<>>]
JsonObject(fields) == [json |-> TRUE, fields |-> fields]

ParseOk(val) == [ok |-> TRUE, val |-> val]
ParseErr == [ok |-> FALSE, val |-> None]

\* A field of type Option<f32> or Option<u64>: absent or null is None, a
\* number is Some, anything else is an error.
OptionalNumber(fields, name) ==
    IF name \notin DOMAIN fields \/ fields[name] = JsonNull THEN ParseOk(None)
    ELSE IF fields[name][1] = "number" THEN ParseOk(Some(fields[name][2]))
    ELSE ParseErr

OptionalNumbers == {"trigger_acc", "feat_dist", "logit_stat", "latency_ms"}

\* serde_json into VerifyResponse: ok is required and a boolean, the other
\* fields are optional numbers, fields it does not know are skipped.
VerifyResponse_from_json(body) ==
    IF ~body.json THEN ParseErr
    ELSE IF "ok" \notin DOMAIN body.fields THEN ParseErr
    ELSE IF body.fields["ok"][1] /= "bool" THEN ParseErr
    ELSE IF \E name \in OptionalNumbers : ~OptionalNumber(body.fields, name).ok
    THEN ParseErr
    ELSE ParseOk([name \in {"ok"} \cup OptionalNumbers |->
                     IF name = "ok" THEN body.fields["ok"][2]
                     ELSE OptionalNumber(body.fields, name).val])

\* Response::json: the body is read to the end and then parsed; a read that
\* fails or runs out of time is an error as well.
Response_json(http) ==
    IF http.read /= "complete" THEN ParseErr ELSE VerifyResponse_from_json(http.body)

\* StatusCode::is_success.
is_success(status) == 200 <= status /\ status <= 299

MlVerdict(body) ==
    [kind |-> "MlVerdict", ok |-> body.ok, trigger_acc |-> body.trigger_acc,
     feat_dist |-> body.feat_dist, logit_stat |-> body.logit_stat,
     latency_ms |-> body.latency_ms]

MlError(kind) == [kind |-> kind]

hash256_to_hex(h) == <<"hex", h>>

VerifyRequest(aid, evidence) ==
    [method |-> "POST", path |-> "/verify", aid |-> hash256_to_hex(aid),
     scheme_id |-> evidence.scheme_id,
     evidence_hash |-> hash256_to_hex(evidence.evidence_hash),
     wm_profile |-> evidence.wm_profile]

\* HttpMlVerifier::verify: what it returns and the requests it sent.
HttpMlVerifier_verify(aid, evidence, http) ==
    IF http.send /= "responded"
    THEN [ret |-> MlError("Transport"), requests |-> <<VerifyRequest(aid, evidence)>>]
    ELSE IF ~is_success(http.status)
    THEN [ret |-> MlError("Service"), requests |-> <<VerifyRequest(aid, evidence)>>]
    ELSE IF ~Response_json(http).ok
    THEN [ret |-> MlError("Protocol"), requests |-> <<VerifyRequest(aid, evidence)>>]
    ELSE [ret |-> MlVerdict(Response_json(http).val),
          requests |-> <<VerifyRequest(aid, evidence)>>]

HttpStatuses == {101, 200, 201, 299, 300, 304, 399, 400, 404, 500, 599}

HttpBodies ==
    {NotJson,
     JsonObject(<<>>),
     JsonObject([ok |-> JsonBool(TRUE)]),
     JsonObject([ok |-> JsonBool(FALSE)]),
     JsonObject([ok |-> JsonString("yes")]),
     JsonObject([trigger_acc |-> JsonNumber(1)]),
     JsonObject([ok |-> JsonBool(TRUE), trigger_acc |-> JsonNumber(1),
                 latency_ms |-> JsonNumber(5)]),
     JsonObject([ok |-> JsonBool(TRUE), feat_dist |-> JsonNull]),
     JsonObject([ok |-> JsonBool(TRUE), logit_stat |-> JsonString("low")]),
     JsonObject([ok |-> JsonBool(FALSE), note |-> JsonString("no watermark")])}

\* send fails or runs out of time, or returns a response whose body is then
\* read to the end or not.
HttpExchanges ==
    {[send |-> send, status |-> 0, read |-> "none", body |-> NotJson] :
        send \in {"failed", "timed_out"}}
      \cup {[send |-> "responded", status |-> status, read |-> read, body |-> body] :
               status \in HttpStatuses, read \in {"complete", "failed", "timed_out"},
               body \in HttpBodies}

Verify(aid, evidence, http) ==
    [op |-> "verify", aid |-> aid, evidence |-> evidence, http |-> http,
     done |-> FALSE, ret |-> MlError("none"), requests |-> <<>>]

InitHttp ==
    /\ store = EmptyStore("mem")
    /\ blocks_rejected_ml = 0
    /\ tx_pool = <<>>
    /\ pool_log = NoLog
    /\ tasks = NoTasks
    /\ \E tx \in {RegA, RegB} :
       \E http \in HttpExchanges :
          last = Verify(tx.aid, tx.evidence, http)

HttpVerify ==
    /\ last.op = "verify" /\ ~last.done
    /\ last' = [last EXCEPT !.done = TRUE,
                            !.ret = HttpMlVerifier_verify(last.aid, last.evidence, last.http).ret,
                            !.requests = HttpMlVerifier_verify(last.aid, last.evidence, last.http).requests]
    /\ UNCHANGED <<store, blocks_rejected_ml, tx_pool, pool_log, tasks>>

NextHttp == HttpVerify

SpecHttp == InitHttp /\ [][NextHttp]_vars

(***************************************************************************)
(* import_block alone, on the in-memory store, with a verifier that answers *)
(* ok = true: blocks of any parent and height arrive in any order.          *)
(***************************************************************************)
FirstBlock == Block(Header(ZeroDigest, 0, 1, Acct1, None), <<>>)

ArrivingBlocks ==
    {Block(Header(parent, height, 1, Acct1, None), txs) :
        parent \in {ZeroDigest, IdDigest(3), compute_hash(FirstBlock)},
        height \in 0..MaxHeight, txs \in {<<>>, <<RegA>>}}

AcceptingVerifier(block) ==
    [pair \in {ml_pairs(block)[i] : i \in 1..Len(ml_pairs(block))} |-> VerdictOk]

ImportArriving ==
    /\ CanCall
    /\ \E block \in ArrivingBlocks :
       \E r \in {import_block(store, block, AcceptingVerifier(block), AllWritten)} :
          /\ store' = r.store
          /\ last' = Called("import", Some(block), r)
    /\ UNCHANGED <<blocks_rejected_ml, tx_pool, pool_log, tasks>>

NextArriving == ImportArriving

SpecArriving == InitMem /\ [][NextArriving]_vars

(***************************************************************************)
(* The same, with blocks that arrive a second time: a block of the store    *)
(* is imported again.                                                       *)
(***************************************************************************)
ImportStored ==
    /\ \E hash \in DOMAIN store.blocks :
       \E block \in {Unwrap(get_block(store, hash))} :
       \E r \in {import_block(store, block, AcceptingVerifier(block), AllWritten)} :
          /\ store' = r.store
          /\ last' = Called("import_stored", Some(block), r)
    /\ UNCHANGED <<blocks_rejected_ml, tx_pool, pool_log, tasks>>

NextArrivingAgain == ImportArriving \/ ImportStored

SpecArrivingAgain == InitMem /\ [][NextArrivingAgain]_vars

(***************************************************************************)
(* propose_block alone, on the in-memory store, while the tip is below the  *)
(* greatest height.                                                         *)
(***************************************************************************)
ChainInputs ==
    {[proposer_id |-> proposer_id, timestamp |-> timestamp, txs |-> txs] :
        proposer_id \in {Acct1, Acct2}, timestamp \in {1, 2},
        txs \in {<<>>, <<RegA>>, <<RegB>>, <<RegA, RegA2>>}}

ProposeOnTip ==
    /\ CanCall
    /\ ~BuildOverflows(store)
    /\ \E in \in ChainInputs :
       \E allow_empty_blocks \in AllowEmptyBlocks(in.txs) :
       \E verifier \in Verifiers(build_block(store, in.proposer_id, in.txs, in.timestamp,
                                             allow_empty_blocks)) :
       \E r \in {propose_block(store, in.proposer_id, in.txs, in.timestamp,
                               allow_empty_blocks, FALSE, verifier, AllWritten)} :
          /\ store' = r.store
          /\ last' = Proposed(r, allow_empty_blocks)
    /\ UNCHANGED <<blocks_rejected_ml, tx_pool, pool_log, tasks>>

NextProposing == ProposeOnTip

SpecProposing == InitMem /\ [][NextProposing]_vars

(***************************************************************************)
(* Properties.  last is the call that led to the current state, so a       *)
(* formula over last' and store, store' speaks of one call, its arguments  *)
(* and result, and the stores before and after it.                         *)
(***************************************************************************)
\* The hashes a step adds to the stored blocks or makes the tip.
NewlyHeld ==
    (DOMAIN store'.blocks \ DOMAIN store.blocks)
        \cup (IF IsSome(tip(store')) /\ tip(store') /= tip(store)
              THEN {Unwrap(tip(store'))} ELSE {})

\* Every (aid, evidence) of the block was asked about and answered ok = true,
\* and no call was answered otherwise.
VerifiedOk(block, calls) ==
    /\ \A i \in 1..Len(ml_pairs(block)) :
          \E j \in 1..Len(calls) : calls[j] = VerifyCall(ml_pairs(block)[i], VerdictOk)
    /\ \A j \in 1..Len(calls) : calls[j].outcome = VerdictOk

\* validator.validate(block) returned an error in the call l: the base checks
\* reject the block, or it has too many artefacts, or a verify call did not
\* answer ok = true.
ValidationFails(l) ==
    /\ IsSome(l.block)
    /\ \/ ~BaseValidity_validate(Unwrap(l.block)).ok
       \/ Len(unique_pairs(ml_pairs(Unwrap(l.block)), {})) > MaxArtefactsPerBlock
       \/ \E j \in 1..Len(l.calls) : l.calls[j].outcome /= VerdictOk

\* C1: with CombinedValidator(BaseValidity, MlValidity), a block enters the
\* store or becomes the tip only in a call on that very block in which the
\* verifier answered ok = true for the (aid, evidence) of every RegisterModel
\* of the block; a call in which a verification answered ok = false or an
\* MlError stores nothing and moves no tip.
C1_StoredOnlyAfterVerdictOk ==
    [][/\ \A h \in NewlyHeld :
             /\ IsSome(last'.block)
             /\ h = compute_hash(Unwrap(last'.block))
             /\ VerifiedOk(Unwrap(last'.block), last'.calls)
       /\ (\E j \in 1..Len(last'.calls) : last'.calls[j].outcome /= VerdictOk)
             => store' = store]_vars

\* A block with a RegisterModel was imported, is stored and is the tip.
C1_Witness ==
    /\ last.ret.ok
    /\ IsSome(last.block)
    /\ ml_pairs(Unwrap(last.block)) /= <<>>
    /\ tip(store) = Some(compute_hash(Unwrap(last.block)))
    /\ get_block(store, compute_hash(Unwrap(last.block))) = last.block

\* C2: in every state reached from the empty store by import_block and
\* propose_block calls, tip() is absent or the hash of a block that get_block
\* returns.
C2_TipReferencesStoredBlock ==
    IsSome(tip(store)) => IsSome(get_block(store, Unwrap(tip(store))))

\* C3: when validate returns an error, import_block (and a propose_block that
\* reaches it) returns ConsensusError::Validation, calls neither put_block nor
\* set_tip, and leaves the stored blocks and the tip as they were.
C3_ValidationErrorLeavesState ==
    [][ValidationFails(last') =>
          /\ ~last'.ret.ok
          /\ last'.ret.err = "Validation"
          /\ last'.put = "none"
          /\ last'.set_tip = "none"
          /\ store' = store]_vars

\* A call failed on a verifier's answer, on a store that holds a block and a tip.
C3_Witness ==
    /\ last.ret.err = "Validation"
    /\ last.calls /= <<>>
    /\ DOMAIN store.blocks /= {}
    /\ IsSome(tip(store))

\* The height of the block the tip points to, stored or not: a hash is the
\* hash of one block only, the one whose canonical bytes it was computed from.
TipHeight(st) == Unwrap(decode_block(Unwrap(tip(st))[2])).header.height

\* C4: no call moves the tip from a block of height h to a block of a height
\* below h.
C4_TipHeightNeverDecreases ==
    [][(IsSome(tip(store)) /\ IsSome(tip(store'))) =>
          TipHeight(store') >= TipHeight(store)]_vars

\* C5: an import_block whose put_block write or set_tip write failed does not
\* return Ok.
C5_WriteFailureReported ==
    (last.put = "failed" \/ last.set_tip = "failed") => ~last.ret.ok

\* C6: a call whose put_block write failed leaves the tip where it was.
C6_FailedPutLeavesTip ==
    [][last'.put = "failed" => tip(store') = tip(store)]_vars

\* C7: after a propose_block that returned Ok((h, b)): h = compute_hash(b),
\* get_block(h) returns b, and tip() = h.
C7_ProposedBlockIsTip ==
    (last.op = "propose" /\ last.ret.ok) =>
        /\ last.ret.hash = Some(compute_hash(Unwrap(last.block)))
        /\ get_block(store, Unwrap(last.ret.hash)) = last.block
        /\ tip(store) = last.ret.hash

\* C8: the block build_block returns has parent the all-zero digest and
\* height 0 when tip() is absent or its block is absent, parent the tip and
\* height the tip block's height + 1 when the tip block is there; timestamp
\* and proposer are the caller's and pos_proof is none.
C8_BuildBlockHeader ==
    \A in \in ProposeInputs, allow_empty_blocks \in BOOLEAN :
        LET header == build_block(store, in.proposer_id, in.txs, in.timestamp,
                                  allow_empty_blocks).header
            tip_block == IF IsSome(tip(store))
                         THEN get_block(store, Unwrap(tip(store))) ELSE None
        IN  /\ IF IsSome(tip_block)
               THEN /\ header.parent = Unwrap(tip(store))
                    /\ header.height = Unwrap(tip_block).header.height + 1
               ELSE /\ header.parent = ZeroDigest
                    /\ header.height = 0
            /\ header.timestamp = in.timestamp
            /\ header.proposer = in.proposer_id
            /\ header.pos_proof = None

\* The tips to ask the fork choice about: none, the store's, and the hash of
\* every candidate, stored or not.
ForkChoiceTips ==
    {None, tip(store)} \cup {Some(compute_hash(c)) : c \in ImportCandidates}

\* C9: should_update_tip answers on every input: true when current_tip is
\* absent; when the tip block is loadable, true exactly when the candidate's
\* height is strictly greater than the tip block's; true when current_tip is
\* present and its block cannot be loaded.  The three cases fix the answer, so
\* it depends on nothing but them.
C9_ForkChoiceCases ==
    \A t \in ForkChoiceTips, c \in ImportCandidates :
        LET r == should_update_tip(store, t, c)
            tip_block == IF IsSome(t) THEN get_block(store, Unwrap(t)) ELSE None
        IN  /\ r \in BOOLEAN
            /\ ~IsSome(t) => r
            /\ (IsSome(t) /\ IsSome(tip_block)) =>
                   r = (c.header.height > Unwrap(tip_block).header.height)
            /\ (IsSome(t) /\ ~IsSome(tip_block)) => r

\* The store's tip cannot be loaded and a candidate wins against it, while a
\* candidate of a stored block's height loses against that block.
C9_Witness ==
    /\ IsSome(tip(store))
    /\ ~IsSome(get_block(store, Unwrap(tip(store))))
    /\ \E c \in ImportCandidates : should_update_tip(store, tip(store), c)
    /\ \E h \in DOMAIN store.blocks, c \in ImportCandidates :
          /\ c.header.height = Unwrap(get_block(store, h)).header.height
          /\ ~should_update_tip(store, Some(h), c)

\* C10: an import_block of a valid block of a height equal to or lower than
\* the tip block's returns Ok, leaves tip() as it was, and afterwards get_block
\* returns both the tip block and the imported block.
C10_LowerBlockStoredTipKept ==
    [][(/\ last'.op = "import"
        /\ ~ValidationFails(last')
        /\ IsSome(tip(store))
        /\ IsSome(get_block(store, Unwrap(tip(store))))
        /\ Unwrap(last'.block).header.height
               <= Unwrap(get_block(store, Unwrap(tip(store)))).header.height) =>
          /\ last'.ret.ok
          /\ tip(store') = tip(store)
          /\ get_block(store', Unwrap(tip(store))) = get_block(store, Unwrap(tip(store)))
          /\ get_block(store', compute_hash(Unwrap(last'.block))) = last'.block]_vars

\* No two RegisterModel transactions of the block share an aid.
DistinctAids(block) ==
    \A i \in 1..Len(block.txs), j \in 1..Len(block.txs) :
        (i < j /\ IsRegisterModel(block.txs[i]) /\ IsRegisterModel(block.txs[j]))
            => block.txs[i].aid /= block.txs[j].aid

BaseValidityDone == last.op = "BaseValidity" /\ last.done

\* C11: BaseValidity::validate accepts a block exactly when it has at most
\* max_block_txs transactions, its canonical bytes are at most
\* max_block_size_bytes long and no two of its RegisterModel transactions share
\* an aid (so a block at a limit passes and one past it fails), and an empty
\* block is never turned away for its transaction count.
C11_BaseValidityAcceptsIff ==
    BaseValidityDone =>
        /\ last.ret.ok <=>
              /\ Len(Unwrap(last.block).txs) <= Unwrap(last.base).max_block_txs
              /\ ByteLen(canonical_bytes(Unwrap(last.block)))
                    <= Unwrap(last.base).max_block_size_bytes
              /\ DistinctAids(Unwrap(last.block))
        /\ Unwrap(last.block).txs = <<>> => last.ret.msg /= "exceeds max_block_txs"

\* A block of two registrations, exactly at both limits, is accepted.
C11_Witness ==
    /\ BaseValidityDone
    /\ last.ret.ok
    /\ Len(Unwrap(last.block).txs) = Unwrap(last.base).max_block_txs
    /\ ByteLen(canonical_bytes(Unwrap(last.block))) = Unwrap(last.base).max_block_size_bytes
    /\ \E i \in 1..Len(Unwrap(last.block).txs), j \in 1..Len(Unwrap(last.block).txs) :
          i < j /\ IsRegisterModel(Unwrap(last.block).txs[i])
                /\ IsRegisterModel(Unwrap(last.block).txs[j])

\* The distinct (aid, evidence_hash) keys of the block's RegisterModel
\* transactions.
MlKeys(block) ==
    {<<block.txs[i].aid, block.txs[i].evidence.evidence_hash>> :
        i \in {j \in 1..Len(block.txs) : IsRegisterModel(block.txs[j])}}

MlValidityDone == last.op = "MlValidity" /\ last.done

\* C12: when a block has more distinct (aid, evidence_hash) keys than
\* max_artefacts_per_block, MlValidity::validate fails with the cap error and
\* has called verify zero times; with exactly max_artefacts_per_block keys the
\* cap error is not returned.
C12_CapBeforeAnyVerify ==
    MlValidityDone =>
        /\ Cardinality(MlKeys(Unwrap(last.block))) > Unwrap(last.cfg).max_artefacts_per_block
              => /\ last.ret = Err("exceeds max_artefacts_per_block")
                 /\ last.calls = <<>>
        /\ Cardinality(MlKeys(Unwrap(last.block))) = Unwrap(last.cfg).max_artefacts_per_block
              => last.ret.msg /= "exceeds max_artefacts_per_block"

\* A block one key over a cap of at least one was turned away.
C12_Witness ==
    /\ MlValidityDone
    /\ Unwrap(last.cfg).max_artefacts_per_block >= 1
    /\ Cardinality(MlKeys(Unwrap(last.block))) = Unwrap(last.cfg).max_artefacts_per_block + 1
    /\ ~last.ret.ok

CallKey(call) == <<call.aid, call.evidence.evidence_hash>>

RegisterModelCount(block) ==
    Cardinality({i \in 1..Len(block.txs) : IsRegisterModel(block.txs[i])})

\* C13: one run of MlValidity::validate on a block with k RegisterModel
\* transactions calls verify at most k times and at most once per
\* (aid, evidence_hash) key, and the cap error is returned only when the
\* number of distinct keys, repeats counted once, is over the cap.
C13_OneVerifyPerKey ==
    MlValidityDone =>
        /\ Len(last.calls) <= RegisterModelCount(Unwrap(last.block))
        /\ \A i \in 1..Len(last.calls), j \in 1..Len(last.calls) :
              i < j => CallKey(last.calls[i]) /= CallKey(last.calls[j])
        /\ last.ret.msg = "exceeds max_artefacts_per_block"
              => Cardinality(MlKeys(Unwrap(last.block)))
                    > Unwrap(last.cfg).max_artefacts_per_block

\* A block that registers one key twice passed a cap of one with one call.
C13_Witness ==
    /\ MlValidityDone
    /\ RegisterModelCount(Unwrap(last.block)) > Cardinality(MlKeys(Unwrap(last.block)))
    /\ Cardinality(MlKeys(Unwrap(last.block))) = Unwrap(last.cfg).max_artefacts_per_block
    /\ last.ret.ok
    /\ Len(last.calls) = 1

\* verify answered one of the call's questions with an MlError.
VerifierFailed(l) == \E i \in 1..Len(l.calls) : l.calls[i].outcome \in MlErrors

\* C14: when verify returns an MlError (Transport, Protocol or Service) for a
\* pair of the block, the call returns the Validation error of the verifier
\* and the store is as it was: the block is neither stored nor made tip.
C14_NeverFailsOpen ==
    [][VerifierFailed(last')
          => /\ last'.ret = RetErr("Validation", "ML verifier error")
             /\ store' = store]_vars

\* An import was turned away over an MlError, by a store that holds a block.
C14_Witness ==
    /\ last.op = "import"
    /\ VerifierFailed(last)
    /\ ~last.ret.ok
    /\ last.put = "none"
    /\ DOMAIN store.blocks /= {}

CombinedValidatorDone == last.op = "CombinedValidator" /\ last.done

\* What the two validators of the last CombinedValidator answer on their own.
BaseAnswer == BaseValidity_validate_with(Unwrap(last.base), Unwrap(last.block))

MlAnswer == MlValidity_validate_with(Unwrap(last.cfg), Unwrap(last.block), last.verifier)

\* C15: CombinedValidator runs the base validator, and the ML validator only
\* when the base validator accepts: a block the base validator rejects gets
\* the base validator's error with no call of verify, any other block gets
\* the ML validator's answer, and the result is Ok only if both answer Ok.
C15_BaseThenMl ==
    CombinedValidatorDone =>
        /\ ~BaseAnswer.ok => (last.ret = BaseAnswer /\ last.calls = <<>>)
        /\ BaseAnswer.ok => (last.ret = MlAnswer.res /\ last.calls = MlAnswer.calls)
        /\ last.ret.ok => (BaseAnswer.ok /\ MlAnswer.res.ok)

\* The base validator rejected a block whose pairs the ML validator, within
\* its cap, would have asked the verifier about.
C15_Witness ==
    /\ CombinedValidatorDone
    /\ ~BaseAnswer.ok
    /\ MlAnswer.calls /= <<>>
    /\ last.calls = <<>>

StoredBlocksHaveDistinctAids ==
    \A h \in DOMAIN store.blocks :
        IsSome(get_block(store, h)) /\ DistinctAids(Unwrap(get_block(store, h)))

\* The call imports a block with two RegisterModel transactions of one aid.
DuplicateAidImport(l) == l.op = "import" /\ ~DistinctAids(Unwrap(l.block))

WithinBaseLimits(block) ==
    /\ Len(block.txs) <= MaxBlockTxs
    /\ ByteLen(canonical_bytes(block)) <= MaxBlockSizeBytes

\* C16, as stated: every stored block has pairwise distinct aids among its
\* RegisterModel transactions, and the import of a block with a repeated aid
\* fails with the Validation error "duplicate Aid" and leaves the store as it
\* was.
C16_DuplicateAidMessageAlways ==
    /\ []StoredBlocksHaveDistinctAids
    /\ [][DuplicateAidImport(last')
             => /\ last'.ret = RetErr("Validation", "duplicate Aid")
                /\ store' = store]_vars

\* C16, amended: every stored block has pairwise distinct aids among its
\* RegisterModel transactions, and the import of a block with a repeated aid
\* fails with a Validation error and leaves the store as it was; the error is
\* "duplicate Aid" when the block is within max_block_txs and
\* max_block_size_bytes.
C16_DuplicateAidRejected ==
    /\ []StoredBlocksHaveDistinctAids
    /\ [][DuplicateAidImport(last')
             => /\ ~last'.ret.ok
                /\ last'.ret.err = "Validation"
                /\ store' = store
                /\ WithinBaseLimits(Unwrap(last'.block))
                      => last'.ret.msg = "duplicate Aid"]_vars

\* A block with a repeated aid, within both limits, was turned away by a
\* store that holds a block.
C16_Witness ==
    /\ DuplicateAidImport(last)
    /\ WithinBaseLimits(Unwrap(last.block))
    /\ last.ret = RetErr("Validation", "duplicate Aid")
    /\ DOMAIN store.blocks /= {}

\* C17: after put_block(b), get_block(compute_hash(b)) returns b, for the
\* in-memory and the RocksDB store.
C17_PutThenGet ==
    last.op = "put_block" => get_block(store, last.hash) = last.block

KeysMatchBlocks ==
    \A h \in DOMAIN store.blocks :
        IsSome(get_block(store, h)) /\ compute_hash(Unwrap(get_block(store, h))) = h

\* C18: every key of the block mapping maps to a block whose compute_hash is
\* the key, and put_block of a block that get_block already returns under its
\* hash leaves the store as it was.
C18_KeyIsHashOfBlock ==
    /\ []KeysMatchBlocks
    /\ [][(last'.op = "put_block" /\ last'.before = last'.block) => store' = store]_vars

\* A block was put again into a RocksDB store that held it, and the write
\* reached the database.
C18_Witness ==
    /\ last.op = "put_block"
    /\ last.before = last.block
    /\ last.put = "ok"
    /\ store.kind = "rocksdb"
    /\ IsSome(tip(store))

\* C19: a call of import_block or propose_block neither changes nor removes a
\* stored block: every block get_block returned before the call it returns,
\* the same, after it.
C19_StoredBlocksKept ==
    [][\A h \in DOMAIN store.blocks :
          IsSome(get_block(store, h)) => get_block(store', h) = get_block(store, h)]_vars

\* A second block was written to a store that held one.
C19_Witness ==
    /\ last.put = "ok"
    /\ IsSome(last.block)
    /\ Cardinality(DOMAIN store.blocks) >= 2
    /\ \A h \in DOMAIN store.blocks : IsSome(get_block(store, h))

\* The call failed on a verdict with ok = false.
MlAuthenticityFailure(l) ==
    l.ret = RetErr("Validation", "ML authenticity check failed")

\* C20: every import that fails on a verdict with ok = false adds one to
\* consensus_blocks_rejected_ml, and a successful import leaves it alone.
C20_RejectedMlCounted ==
    [][/\ MlAuthenticityFailure(last') => blocks_rejected_ml' = blocks_rejected_ml + 1
       /\ last'.ret.ok => blocks_rejected_ml' = blocks_rejected_ml]_vars

\* The "tip" entry of the RocksDB store is there and is not 32 bytes long.
CorruptedTipEntry(st) ==
    st.kind = "rocksdb" /\ IsSome(st.tip) /\ ByteLen(Unwrap(st.tip)) /= HASH_LEN

\* C21: reading the tip of a store whose "tip" entry is not 32 bytes long
\* hands the caller something other than what it gets when no tip is set.
C21_CorruptedTipSurfaced ==
    (last.op = "tip" /\ CorruptedTipEntry(store)) => last.ret /= tip(EmptyStore("rocksdb"))

C23_FifoSelect ==
    /\ pool_log.pushed = pool_log.returned \o tx_pool
    /\ last.op = "select_for_block" =>
          /\ Len(last.txs) = Min(last.max_txs, Len(last.queue))
          /\ Len(last.txs) <= last.max_txs
          /\ last.queue = last.txs \o tx_pool

\* A select_for_block took some, not all, of a queue of different
\* transactions, after an earlier one had taken one.
C23_Witness ==
    /\ last.op = "select_for_block"
    /\ last.txs /= <<>>
    /\ tx_pool /= <<>>
    /\ last.txs[1] /= tx_pool[1]
    /\ Len(pool_log.returned) > Len(last.txs)

\* The transactions of the blocks get_block returns.
IncludedTxs ==
    UNION {{Unwrap(get_block(store, h)).txs[i] :
               i \in 1..Len(Unwrap(get_block(store, h)).txs)} : h \in DOMAIN store.blocks}

QueuedTxs == {tx_pool[i] : i \in 1..Len(tx_pool)}

ImportSteps(l) == IF l.op = "propose" THEN Tail(l.steps) ELSE l.steps

ImportStepsInOrder ==
    <<"validate", "tip", "should_update_tip", "put_block", "set_tip">>

TooManyTxs(l) == Len(Unwrap(l.block).txs) > Unwrap(l.base).max_block_txs

TooManyBytes(l) ==
    ByteLen(canonical_bytes(Unwrap(l.block))) > Unwrap(l.base).max_block_size_bytes

\* C26: BaseValidity::validate reports the first rule the block breaks, in the
\* order transaction count, serialized size, duplicate aid: a block with too
\* many transactions gets the count error whatever else is wrong with it, a
\* block within the count but too large gets the size error even if it repeats
\* an aid, and the duplicate error is for blocks within both limits.
C26_FirstViolatedRuleReported ==
    BaseValidityDone =>
        /\ TooManyTxs(last) => last.ret = Err("exceeds max_block_txs")
        /\ (~TooManyTxs(last) /\ TooManyBytes(last))
              => last.ret = Err("exceeds max_block_size_bytes")
        /\ (~TooManyTxs(last) /\ ~TooManyBytes(last) /\ ~DistinctAids(Unwrap(last.block)))
              => last.ret = Err("duplicate Aid")

\* A block that breaks the three rules at once got the count error.
C26_Witness ==
    /\ BaseValidityDone
    /\ TooManyTxs(last)
    /\ TooManyBytes(last)
    /\ ~DistinctAids(Unwrap(last.block))
    /\ last.ret = Err("exceeds max_block_txs")

TxKey(tx) == <<tx.aid, tx.evidence.evidence_hash>>

\* The places in the block where a key occurs for the first time.
FirstOccurrences(block) ==
    {i \in 1..Len(block.txs) :
        /\ IsRegisterModel(block.txs[i])
        /\ \A j \in 1..(i - 1) :
              IsRegisterModel(block.txs[j]) => TxKey(block.txs[j]) /= TxKey(block.txs[i])}

\* The k-th of them, in block order.
FirstOccurrence(block, k) ==
    CHOOSE i \in FirstOccurrences(block) :
        Cardinality({j \in FirstOccurrences(block) : j <= i}) = k

\* C27: the calls of verify that one MlValidity::validate makes are about the
\* block's keys in the order of their first occurrence, each with the aid and
\* evidence of that first occurrence; a call that fails (an MlError or
\* ok = false) is the last call made, so every call before it returned
\* ok = true; and validate succeeds only after asking about every key.
C27_StopsAtFirstFailure ==
    MlValidityDone =>
        /\ Len(last.calls) <= Cardinality(FirstOccurrences(Unwrap(last.block)))
        /\ \A k \in 1..Len(last.calls) :
              /\ last.calls[k].aid =
                    Unwrap(last.block).txs[FirstOccurrence(Unwrap(last.block), k)].aid
              /\ last.calls[k].evidence =
                    Unwrap(last.block).txs[FirstOccurrence(Unwrap(last.block), k)].evidence
              /\ last.calls[k].outcome = last.verifier[<<last.calls[k].aid,
                                                         last.calls[k].evidence>>]
              /\ last.calls[k].outcome /= VerdictOk
                    => (k = Len(last.calls) /\ ~last.ret.ok)
        /\ last.ret.ok =>
              Len(last.calls) = Cardinality(FirstOccurrences(Unwrap(last.block)))
        /\ (~last.ret.ok /\ last.ret.msg /= "exceeds max_artefacts_per_block")
              => /\ last.calls /= <<>>
                 /\ last.calls[Len(last.calls)].outcome /= VerdictOk

\* The verifier passed the first key of three and failed the second: the
\* third was not asked about.
C27_Witness ==
    /\ MlValidityDone
    /\ Cardinality(FirstOccurrences(Unwrap(last.block))) = 3
    /\ Len(last.calls) = 2
    /\ last.calls[1].outcome = VerdictOk
    /\ last.calls[2].outcome /= VerdictOk
    /\ ~last.ret.ok

\* put_block leaves tip() as it was.
PutBlockKeepsTip == last'.op = "put_block" => tip(store') = tip(store)

\* set_tip leaves what get_block returns as it was, for every hash.
SetTipKeepsBlocks ==
    last'.op = "set_tip" =>
        \A block \in StoreBlocks :
            get_block(store', compute_hash(block)) = get_block(store, compute_hash(block))

\* After set_tip(h), tip() is h, whether a block of hash h is stored or not.
SetTipSetsTip == last'.op = "set_tip" => tip(store') = Some(last'.hash)

\* C28: the block mapping and the tip cell of a store are independent:
\* put_block never changes tip(), set_tip(h) never changes the result of a
\* get_block, and after set_tip(h) tip() is h, stored block or not.
C28_TipAndBlocksIndependent ==
    [][PutBlockKeepsTip /\ SetTipKeepsBlocks /\ SetTipSetsTip]_vars

\* What propose_block returns on the store for every input of the model, with
\* allow_empty_blocks as given.
ProposalsOn(st, allow_empty_blocks) ==
    [in \in ProposeInputs |->
        [overflow_checks \in OverflowChecks(st) |->
            LET built == build_block(st, in.proposer_id, in.txs, in.timestamp,
                                     allow_empty_blocks)
            IN  [verifier \in Verifiers(built) |->
                   [io \in IoOutcomes(st, built, verifier) |->
                       propose_block(st, in.proposer_id, in.txs, in.timestamp,
                                     allow_empty_blocks, overflow_checks, verifier, io)]]]]

\* C29: what build_block returns does not depend on allow_empty_blocks: on
\* every store, for every batch, it is the same block with the flag true and
\* false, and propose_block stores it and moves the tip in the same way; a
\* proposal made with the flag false from an empty batch is a block with no
\* transactions.
C29_AllowEmptyBlocksIgnored ==
    /\ \A in \in ProposeInputs :
          build_block(store, in.proposer_id, in.txs, in.timestamp, FALSE)
             = build_block(store, in.proposer_id, in.txs, in.timestamp, TRUE)
    /\ ProposalsOn(store, FALSE) = ProposalsOn(store, TRUE)
    /\ (/\ last.op = "propose"
        /\ ~last.allow_empty_blocks
        /\ IsSome(last.block))
          => Unwrap(last.block).txs = <<>>

\* With empty blocks not allowed, an empty batch was proposed on a tip: the
\* empty block was imported and is the tip.
C29_Witness ==
    /\ last.op = "propose"
    /\ ~last.allow_empty_blocks
    /\ last.ret.ok
    /\ Unwrap(last.block).txs = <<>>
    /\ Unwrap(last.block).header.height = 1
    /\ tip(store) = last.ret.hash

VerifyDone == last.op = "verify" /\ last.done

\* The network failed or ran out of time while the body of the response was
\* read.
BodyReadFailed(http) == http.send = "responded" /\ http.read \in {"failed", "timed_out"}

\* The body was read to the end.
BodyRead(http) == http.send = "responded" /\ http.read = "complete"

\* C30: verify returns Transport when the request fails or runs out of time,
\* before the response or while its body is read, Service for a response of
\* status 400 or more, Protocol for a response whose body cannot be parsed as
\* the verdict, and a verdict only for a response that was parsed, with the
\* fields of the body; it sends exactly one request.
C30_VerifyClassifiesOutcomes ==
    VerifyDone =>
        /\ last.http.send /= "responded" => last.ret = MlError("Transport")
        /\ (last.http.send = "responded" /\ last.http.status >= 400)
              => last.ret = MlError("Service")
        /\ (BodyReadFailed(last.http) /\ last.http.status < 400)
              => last.ret = MlError("Transport")
        /\ (/\ BodyRead(last.http)
            /\ last.http.status < 400
            /\ ~VerifyResponse_from_json(last.http.body).ok)
              => last.ret = MlError("Protocol")
        /\ last.ret.kind = "MlVerdict"
              => /\ BodyRead(last.http)
                 /\ VerifyResponse_from_json(last.http.body).ok
                 /\ last.ret = MlVerdict(VerifyResponse_from_json(last.http.body).val)
        /\ Len(last.requests) = 1

\* The tip is set and no block is stored under it.
TipBlockMissing(st) == IsSome(tip(st)) /\ ~IsSome(get_block(st, Unwrap(tip(st))))

\* The next successful import on a tip without a block makes its block the tip,
\* and the tip references a stored block again.
ImportRecovers ==
    (TipBlockMissing(store) /\ last'.op = "import" /\ last'.ret.ok) =>
        /\ tip(store') = Some(compute_hash(Unwrap(last'.block)))
        /\ ~TipBlockMissing(store')

\* A proposal on a tip without a block starts at height 0 on the all-zero
\* parent.
ProposeRestarts ==
    (TipBlockMissing(store) /\ last'.op = "propose" /\ IsSome(last'.block)) =>
        /\ Unwrap(last'.block).header.height = 0
        /\ Unwrap(last'.block).header.parent = ZeroDigest

\* C31: from a state where tip() = Some(t) and get_block(t) is absent, the next
\* successful import_block of a block b, whatever its height, makes
\* compute_hash(b) the tip, and the tip then references a stored block; a
\* propose_block in that state builds a block of height 0 with the all-zero
\* parent.
C31_CorruptionRecovery == [][ImportRecovers /\ ProposeRestarts]_vars

StoredHeight(st, hash) == Unwrap(get_block(st, hash)).header.height

\* The tip block is stored and no stored block is higher.
TipIsHighest ==
    IsSome(tip(store)) =>
        /\ IsSome(get_block(store, Unwrap(tip(store))))
        /\ \A hash \in DOMAIN store.blocks :
              StoredHeight(store, hash) <= StoredHeight(store, Unwrap(tip(store)))

\* The tip moves only to the block a successful call brings in, a block that
\* was not stored and is strictly higher than every block stored before it: of
\* the stored blocks of one height, the first that came is the only one that
\* was ever made the tip.
TipMovesOnlyUp ==
    tip(store') /= tip(store) =>
        /\ last'.ret.ok
        /\ tip(store') = last'.ret.hash
        /\ Unwrap(last'.ret.hash) \notin DOMAIN store.blocks
        /\ \A hash \in DOMAIN store.blocks :
              StoredHeight(store, hash) < Unwrap(last'.block).header.height

\* C32: from an empty in-memory store, through import_block and propose_block,
\* a tip that is set is a stored block at least as high as every stored block,
\* and it is the earliest imported of the stored blocks of the greatest
\* height: the tip only ever moves to a new block strictly higher than all the
\* blocks stored before it.
C32_TipIsEarliestHighest == []TipIsHighest /\ [][TipMovesOnlyUp]_vars

\* A second block of the tip's height was imported and stored, and the tip
\* stayed on the first.
C32_Witness ==
    /\ store.kind = "mem"
    /\ last.op = "import"
    /\ last.ret.ok
    /\ IsSome(tip(store))
    /\ last.ret.hash /= tip(store)
    /\ Unwrap(last.block).header.height = StoredHeight(store, Unwrap(tip(store)))
    /\ Unwrap(last.ret.hash) \in DOMAIN store.blocks

\* C33: when propose_block fails validation, the transactions build_block took
\* from the pool (the first of the queue, as many as the block holds) are not
\* put back: the queue is left with what was behind them, and the store is as
\* it was, so they are in no stored block.
C33_DrainedTxsLost ==
    [][(last'.op = "propose" /\ last'.ret.err = "Validation") =>
          /\ Unwrap(last'.block).txs = SubSeq(tx_pool, 1, Len(Unwrap(last'.block).txs))
          /\ tx_pool' = SubSeq(tx_pool, Len(Unwrap(last'.block).txs) + 1, Len(tx_pool))
          /\ Len(tx_pool') = Len(tx_pool) - Len(Unwrap(last'.block).txs)
          /\ store' = store]_vars

\* A proposal of a full batch failed on the verifier's answer; the
\* transaction queued behind the batch is still queued, and nothing is stored.
C33_Witness ==
    /\ last.op = "propose"
    /\ last.ret = RetErr("Validation", "ML authenticity check failed")
    /\ Len(Unwrap(last.block).txs) = MaxBlockTxs
    /\ tx_pool /= <<>>
    /\ pool_log.returned = Unwrap(last.block).txs
    /\ DOMAIN store.blocks = {}

\* C34: the proposer's height + 1 never overflows: a successful propose_block
\* on a store whose tip block is stored returns a block strictly higher than
\* that tip block, also when the tip block has the greatest height there is.
C34_ProposedHeightAboveTip ==
    [][(/\ last'.op = "propose"
        /\ last'.ret.ok
        /\ IsSome(tip(store))
        /\ IsSome(get_block(store, Unwrap(tip(store)))))
          => Unwrap(last'.block).header.height > TipBlockHeight(store)]_vars

\* C35: import_block checks no chain linkage: a block the validators accept is
\* imported and stored whatever its parent and height are, and its height
\* alone decides whether it becomes the tip; so a state is reached where the
\* tip block's parent is neither the all-zero digest nor a stored block, and
\* where its height is not one more than a parent's.
C35_NoLinkageCheck ==
    [][(last'.op = "import" /\ ~ValidationFails(last')) =>
          /\ last'.ret = RetOk(compute_hash(Unwrap(last'.block)))
          /\ get_block(store', compute_hash(Unwrap(last'.block))) = last'.block
          /\ (tip(store') = last'.ret.hash)
                = \/ tip(store) = last'.ret.hash
                  \/ should_update_tip(store, tip(store), Unwrap(last'.block))]_vars

\* The tip block hangs on a parent that is neither the all-zero digest nor
\* stored, at a height above 0 with no block below it.
C35_Witness ==
    /\ IsSome(tip(store))
    /\ IsSome(get_block(store, Unwrap(tip(store))))
    /\ Unwrap(get_block(store, Unwrap(tip(store)))).header.parent /= ZeroDigest
    /\ Unwrap(get_block(store, Unwrap(tip(store)))).header.parent \notin DOMAIN store.blocks
    /\ TipBlockHeight(store) > 0
    /\ \A hash \in DOMAIN store.blocks :
          StoredHeight(store, hash) + 1 /= TipBlockHeight(store)

StoredCount(st) == Cardinality(DOMAIN st.blocks)

\* The stored blocks are one chain: one block at each height from 0 to their
\* number less one, the block of height 0 on the all-zero parent, every other
\* block on the stored block one below it, and the highest of them the tip.
StoredChain ==
    /\ \A height \in 0..(StoredCount(store) - 1) :
          Cardinality({hash \in DOMAIN store.blocks :
                          StoredHeight(store, hash) = height}) = 1
    /\ \A hash \in DOMAIN store.blocks :
          IF StoredHeight(store, hash) = 0
          THEN Unwrap(get_block(store, hash)).header.parent = ZeroDigest
          ELSE /\ Unwrap(get_block(store, hash)).header.parent \in DOMAIN store.blocks
               /\ StoredHeight(store, Unwrap(get_block(store, hash)).header.parent)
                     = StoredHeight(store, hash) - 1
    /\ IF StoredCount(store) = 0 THEN tip(store) = None
       ELSE /\ IsSome(tip(store))
            /\ Unwrap(tip(store)) \in DOMAIN store.blocks
            /\ TipBlockHeight(store) = StoredCount(store) - 1

\* A successful proposal adds one block, a failed one none.
OneBlockPerProposal ==
    last'.op = "propose" =>
        StoredCount(store') = StoredCount(store) + (IF last'.ret.ok THEN 1 ELSE 0)

\* C36: with propose_block as the only operation on an engine that starts
\* with an empty in-memory store, and heights below the greatest, the stored
\* blocks form one chain: n successful proposals leave n blocks of heights
\* 0..n-1, the first on the all-zero parent, each other on the block one
\* below, and the tip is the block of height n-1.
C36_ProposalsFormOneChain == []StoredChain /\ [][OneBlockPerProposal]_vars

\* A second proposal succeeded: two blocks, the tip at height 1.
C36_Witness ==
    /\ last.op = "propose"
    /\ last.ret.ok
    /\ StoredCount(store) = 2
    /\ tip(store) = last.ret.hash
    /\ Unwrap(last.block).header.height = 1
    /\ Unwrap(last.block).header.parent \in DOMAIN store.blocks


\* Some task waits for a mutex and no task can run.
Deadlocked ==
    /\ \E t \in Tasks : tasks.pc[t] = "waiting"
    /\ \A t \in Tasks : tasks.pc[t] # "ready"

\* The producer is about to propose: it owns both mutexes and no handler is
\* at its push.
ProposeExclusive ==
    HoldsAll(Producer) =>
        /\ tasks.owner["engine"] = Some(Producer)
        /\ tasks.owner["tx_pool"] = Some(Producer)
        /\ \A h \in Handlers : ~HoldsAll(h)

\* The producer owns the pool only under the engine, and no handler ever
\* owns the engine.
LockOrder ==
    /\ tasks.owner["tx_pool"] = Some(Producer) => tasks.owner["engine"] = Some(Producer)
    /\ tasks.owner["engine"] \in {None, Some(Producer)}

HandlerPushed(h) == tasks.pc[h] = "done" /\ \E i \in 1..Len(pool_log.pushed) : pool_log.pushed[i] = HandlerTx(h)

\* C37: the producer locks the engine and then the pool and the handlers
\* lock the pool alone; whatever the order the producer and the handlers
\* run in, the tasks never deadlock, the producer proposes owning both
\* mutexes with no handler at its push, and a handler waiting for the pool
\* lock pushes its transaction in the end.
C37_NoDeadlockAndHandlersPush ==
    /\ [](~Deadlocked /\ ProposeExclusive /\ LockOrder)
    /\ \A h \in Handlers : (tasks.pc[h] = "waiting") ~> HandlerPushed(h)

\* The producer is about to propose while a handler waits for the pool.
C37_Witness ==
    /\ HoldsAll(Producer)
    /\ \E h \in Handlers : tasks.pc[h] = "waiting"
    /\ tx_pool # <<>>

\* The RegisterModel transactions of a block, in block order.
RegisterModels(block) == SelectSeq(block.txs, IsRegisterModel)

\* The verifier answers ok = true for every artefact of the last call's block.
AllVerdictsOk ==
    \A i \in 1..Len(ml_pairs(Unwrap(last.block))) :
        last.verifier[ml_pairs(Unwrap(last.block))[i]] = VerdictOk

\* C38: a CombinedValidator over a block that passes the base validator, has
\* no more unique pairs than max_artefacts_per_block and whose verdicts are
\* all ok accepts it after calling verify once for each RegisterModel
\* transaction, in block order, with that transaction's aid and evidence.
C38_OneVerifyPerRegisterModel ==
    (/\ CombinedValidatorDone
     /\ BaseAnswer.ok
     /\ Len(unique_pairs(ml_pairs(Unwrap(last.block)), {}))
            <= Unwrap(last.cfg).max_artefacts_per_block
     /\ AllVerdictsOk)
    => /\ last.ret = Ok
       /\ Len(last.calls) = Len(RegisterModels(Unwrap(last.block)))
       /\ \A k \in 1..Len(last.calls) :
             /\ last.calls[k].aid = RegisterModels(Unwrap(last.block))[k].aid
             /\ last.calls[k].evidence = RegisterModels(Unwrap(last.block))[k].evidence
             /\ last.calls[k].outcome = VerdictOk

\* Two artefacts registered around a transfer were each asked about, in
\* block order.
C38_Witness ==
    /\ CombinedValidatorDone
    /\ Unwrap(last.block).txs = <<RegB, Xfer, RegA>>
    /\ last.ret = Ok
    /\ Len(last.calls) = 2
    /\ last.calls[1].aid = RegB.aid
    /\ last.calls[2].aid = RegA.aid

\* C40: a block that MlValidity on its own accepts has had every
\* RegisterModel transaction's own aid and evidence (scheme_id, evidence_hash
\* and wm_profile) passed to verify with a verdict of ok = true, also when
\* two of them share (aid, evidence_hash) and differ in scheme_id.
C40_EveryRegistrationVerified ==
    (MlValidityDone /\ last.ret.ok) =>
        \A i \in 1..Len(Unwrap(last.block).txs) :
            IsRegisterModel(Unwrap(last.block).txs[i]) =>
                \E k \in 1..Len(last.calls) :
                    /\ last.calls[k].aid = Unwrap(last.block).txs[i].aid
                    /\ last.calls[k].evidence = Unwrap(last.block).txs[i].evidence
                    /\ last.calls[k].outcome = VerdictOk

\* An import of a block that is already stored returns the hash the block is
\* stored under and leaves the stored blocks and the tip as they were.
ImportOfStoredChangesNothing ==
    (/\ last'.op \in {"import", "import_stored"}
     /\ last'.ret.ok
     /\ IsSome(get_block(store, compute_hash(Unwrap(last'.block)))))
    => /\ IsSome(last'.ret.hash)
       /\ get_block(store, Unwrap(last'.ret.hash)) = last'.block
       /\ store'.blocks = store.blocks
       /\ tip(store') = tip(store)

\* C39: on the in-memory store, with a validator that accepts, the import of
\* a block that is already stored returns the same hash as its first import
\* and leaves the set of stored blocks and the tip as they were.
C39_ImportIdempotent == [][ImportOfStoredChangesNothing]_vars

\* A stored block of the tip's height that is not the tip was imported again.
C39_Witness ==
    /\ last.op = "import_stored"
    /\ last.ret.ok
    /\ StoredCount(store) = 2
    /\ last.ret.hash /= tip(store)
    /\ StoredHeight(store, Unwrap(last.ret.hash)) = StoredHeight(store, Unwrap(tip(store)))
====
